---- MODULE Spec2Model ----
(***************************************************************************)
(* SHEAP, the secure heap of the sheaperd library (src/src/sheap.c), as a  *)
(* state machine over the bytes of the arena.  Block headers and boundary  *)
(* tags are not abstracted: they are decoded from and encoded into the     *)
(* arena bytes (little endian, packed), and the CRC-16 is computed by the  *)
(* bit-serial routine of src/src/internal/util.c.                          *)
(*                                                                         *)
(* One action stands for one call of the public API made by a single       *)
(* caller context; the caller's own stores into a payload are the action   *)
(* caller_write.                                                           *)
(***************************************************************************)
EXTENDS Integers, Sequences, FiniteSets, TLC

VARIABLES
  ext,              \* build option SHEAPERD_SHEAP_USE_EXTENDED_HEADER == 1
  callocValue,      \* build option SHEAPERD_SHEAP_CALLOC_VALUE
  mem,              \* the bytes of the embedder's buffer, mem[1] is at BufferBase
  gStartBlock,      \* static memory_blockInfo_t* gStartBlock
  gHeap,            \* static sheap_heapStat_t gHeap
  gHeaderIds,       \* static uint32_t gHeaderIds[SHEAP_HEADER_ID_LOG_SIZE]
  gCurrentIDIndex,  \* static int16_t gCurrentIDIndex
  allocBusy,        \* static bool allocBusy
  freeBusy,         \* static bool freeBusy
  live,             \* caller's view: pointer -> [size, zeroed, fault] of what it holds
  stale,            \* caller's view: the pointer released last, until handed out again
  last,             \* caller's view: the latest call, its result and its reports
  rtos,             \* build option SHEAPERD_CMSIS_2 == 1 (SHEAPERD_NO_OS == 0)
  gMemMutex,        \* static osMutexId_t gMemMutex_id and the mutex it names
  running,          \* the task that makes the calls
  recorded,         \* caller's view: the non-zero ids it passed since sheap_init
  interrupted,      \* the call in progress that an interrupt has arrived in
  gNumberOfRegions, \* static uint8_t gNumberOfRegions
  gNextUnusedRegion, \* static uint8_t gNextUnusedRegion
  gTasksRegions,    \* static stackguard_mpuRegion_t gTasksRegions[]
  MPU,              \* the registers of the memory protection unit
  gStackMutex       \* static osMutexId_t gStackMutex_id and the mutex it names

vars == << ext, callocValue, mem, gStartBlock, gHeap, gHeaderIds, gCurrentIDIndex,
           allocBusy, freeBusy, live, stale, last, rtos, gMemMutex, running,
           recorded, interrupted, gNumberOfRegions, gNextUnusedRegion,
           gTasksRegions, MPU, gStackMutex >>

\* the state of the stack guard and of the memory protection unit
guardVars == << gNumberOfRegions, gNextUnusedRegion, gTasksRegions, MPU,
                gStackMutex >>

(***************************************************************************)
(* Bounds of the model.                                                    *)
(***************************************************************************)
BufferBaseWords == 64      \* the buffer starts at word 64 of the address space
ArenaWords == 28           \* the embedder's buffer, in 32-bit words
OddArenaSize == 30         \* a second arena size, not a multiple of 4
ArenaSlack == 1            \* words of the large arena beyond three minimal blocks
MaxScenarioCalls == 6      \* calls with a non-zero id made on the 1 KiB heap
MaxRecorded == 17          \* calls with a non-zero id between two sheap_init
MaxMutexDepth == 2         \* times the recursive mutex is held at once
HardwareRegions == 2       \* regions of the MPU, MPU->TYPE.DREGION

\* sizeof(memory_blockInfo_t): packed, 4 + 4 + 2 + 2 or 4 + 2 + 2 bytes
SizeofBlockInfo == IF ext THEN 12 ELSE 8

BufferBase == 4 * BufferBaseWords
BufferSize == 4 * ArenaWords
NULL == 0

\* the arena sizes handed to sheap_init: none, an odd one, and one that holds
\* three blocks of the build's header size
LargeArenaSize == 9 * SizeofBlockInfo + 4 * ArenaSlack
ArenaSizes == {0, OddArenaSize, LargeArenaSize}
MallocSizes == {0, 3, 8, 2 * BufferSize}
CallocArgs == {<<1, 3>>}
CallerIds == {0}
CallerBytes == {165}
CallocValues == {0, 255}

(***************************************************************************)
(* Program constants.                                                      *)
(***************************************************************************)
SHEAPERD_SHEAP_MINIMUM_MALLOC_SIZE == 4
SHEAPERD_SHEAP_OVERWRITE_VALUE == 255
SHEAPERD_CRC16_POLY == 4129
SHEAPERD_CRC16_XOR_OUT == 0
SHEAPERD_SHEAP_AUTO_CREATED_BLOCK_ID == 1
SHEAP_HEADER_ID_LOG_SIZE == 20
STACKGUARD_NUMBER_OF_MPU_REGIONS == 8

\* size_t and uint32_t hold 32 bits on the Cortex-M targets of the library.
\* A value v of 2^31 or more is written as v - 2^32, the two's complement
\* reading of the same bits, so that sums and differences are those of C
\* modulo 2^32; SIZE_MAX is -1.  Comparisons of C on unsigned operands are
\* ULess.
SIZE_MAX == -1

ULess(a, b) == IF (a < 0) = (b < 0) THEN a < b ELSE b < 0


(***************************************************************************)
(* Bit operations of C on unsigned values.                                 *)
(***************************************************************************)
RECURSIVE Xor(_, _)
Xor(a, b) == IF a = 0 THEN b
             ELSE IF b = 0 THEN a
             ELSE ((a + b) % 2) + 2 * Xor(a \div 2, b \div 2)

\* x & ~(k - 1) for a power of two k
AndNotLow(x, k) == x - (x % k)

\* a value stored into the 31-bit bit-field size
Trunc31(x) == IF x >= 0 THEN x ELSE (x + 2147483647) + 1

(***************************************************************************)
(* util_crc16_sw_calculate.  crc16_bits is the inner loop over the 8 bits  *)
(* of one byte; XorByte and Crc16BitsOf hold the exclusive or of two bytes *)
(* and the result of the inner loop for every argument.                    *)
(***************************************************************************)
XorByte == SubSeq([a \in 1..256 |->
                     SubSeq([b \in 1..256 |-> Xor(a - 1, b - 1)], 1, 256)], 1, 256)

\* a ^ b on uint16_t, byte by byte
Xor16(a, b) == XorByte[(a \div 256) + 1][(b \div 256) + 1] * 256
               + XorByte[(a % 256) + 1][(b % 256) + 1]

RECURSIVE crc16_bits(_, _)
crc16_bits(crc, j) ==
  IF j = 8 THEN crc
  ELSE IF crc >= 32768
       THEN crc16_bits(Xor16((crc * 2) % 65536, SHEAPERD_CRC16_POLY), j + 1)
       ELSE crc16_bits((crc * 2) % 65536, j + 1)

Crc16BitsOf == SubSeq([k \in 1..65536 |-> crc16_bits(k - 1, 0)], 1, 65536)

\* crc ^= (data[i] << 8), followed by the inner loop
crc16_byte(crc, d) ==
  Crc16BitsOf[(XorByte[(crc \div 256) + 1][d + 1] * 256 + (crc % 256)) + 1]

RECURSIVE crc16_loop(_, _, _, _)
crc16_loop(data, n, i, crc) ==
  IF i >= n THEN crc
  ELSE crc16_loop(data, n, i + 1, crc16_byte(crc, data[i + 1]))

\* data: the bytes data[0..n-1] as a sequence
util_crc16_sw_calculate(data, n) ==
  Xor16(crc16_loop(data, n, 0, 65535), SHEAPERD_CRC16_XOR_OUT)

(***************************************************************************)
(* The buffer as addressed memory.                                         *)
(***************************************************************************)
Idx(a) == a - BufferBase + 1
Byte(m, a) == m[Idx(a)]
Bytes(m, a, n) == SubSeq(m, Idx(a), Idx(a) + n - 1)

\* for(i = 0; i < size; i++) ptr[i] = v
FillMemory(m, ptr, size, v) ==
  IF size <= 0 THEN m
  ELSE SubSeq(m, 1, Idx(ptr) - 1) \o [i \in 1..size |-> v]
       \o SubSeq(m, Idx(ptr) + size, Len(m))

clearMemory(m, ptr, size) == FillMemory(m, ptr, size, SHEAPERD_SHEAP_OVERWRITE_VALUE)

(***************************************************************************)
(* memory_blockInfo_t at address b: the fields as laid out in memory.      *)
(*   isAllocated : 1, size : 31   bytes 0..3                               *)
(*   id                           bytes 4..7 (extended header only)        *)
(*   alignmentOffset              2 bytes                                  *)
(*   crc                          2 bytes                                  *)
(***************************************************************************)
OffAlign == SizeofBlockInfo - 4
OffCrc == SizeofBlockInfo - 2

isAllocated(m, b) == Byte(m, b) % 2 = 1
sizeOf(m, b) == (Byte(m, b) \div 2) + 128 * Byte(m, b + 1)
                + 32768 * Byte(m, b + 2) + 8388608 * Byte(m, b + 3)
idOf(m, b) == Bytes(m, b + 4, 4)
alignmentOffset(m, b) == Byte(m, b + OffAlign) + 256 * Byte(m, b + OffAlign + 1)
crcOf(m, b) == Byte(m, b + OffCrc) + 256 * Byte(m, b + OffCrc + 1)

IdBytes(id) == << id % 256, (id \div 256) % 256, (id \div 65536) % 256,
                  (id \div 16777216) % 256 >>

setIsAllocated(m, b, f) ==
  [m EXCEPT ![Idx(b)] = (m[Idx(b)] \div 2) * 2 + (IF f THEN 1 ELSE 0)]

setSize(m, b, s) ==
  LET t == Trunc31(s) IN
  [m EXCEPT ![Idx(b)] = (t % 128) * 2 + (m[Idx(b)] % 2),
            ![Idx(b) + 1] = (t \div 128) % 256,
            ![Idx(b) + 2] = (t \div 32768) % 256,
            ![Idx(b) + 3] = (t \div 8388608) % 256]

\* block->id = id, compiled in only with the extended header
setId(m, b, idb) ==
  IF ext
  THEN [m EXCEPT ![Idx(b) + 4] = idb[1], ![Idx(b) + 5] = idb[2],
                 ![Idx(b) + 6] = idb[3], ![Idx(b) + 7] = idb[4]]
  ELSE m

setAlignmentOffset(m, b, v) ==
  [m EXCEPT ![Idx(b + OffAlign)] = (v % 65536) % 256,
            ![Idx(b + OffAlign) + 1] = (v % 65536) \div 256]

setCrc(m, b, v) ==
  [m EXCEPT ![Idx(b + OffCrc)] = v % 256, ![Idx(b + OffCrc) + 1] = v \div 256]

(***************************************************************************)
(* The pointer macros.                                                     *)
(***************************************************************************)
GET_BLOCK_OVERHEAD_SIZE(size) == size + 2 * SizeofBlockInfo
PAYLOAD_BLOCK_TO_MEMORY_BLOCK(payload) == payload - SizeofBlockInfo
\* p + n on a 32-bit pointer: a sum of 2^31 or more is held as the negative
\* number with the same 32 bits
PointerPlus(p, n) ==
  IF n > 2147483647 - p THEN ((p - 2147483647) - 1) + ((n - 2147483647) - 1) ELSE p + n

GET_NEXT_MEMORY_BLOCK(m, block) ==
  PointerPlus(block + 2 * SizeofBlockInfo, sizeOf(m, block))
GET_BOUNDARY_TAG(m, block) == PointerPlus(block + SizeofBlockInfo, sizeOf(m, block))
GET_SIZE_OF_PREV_BLOCK(m, block) == sizeOf(m, block - SizeofBlockInfo)
GET_PREV_MEMORY_BLOCK(m, block) ==
  block - 2 * SizeofBlockInfo - GET_SIZE_OF_PREV_BLOCK(m, block)

(***************************************************************************)
(* CRC of a header, and the writers of header and boundary tag.            *)
(***************************************************************************)
HeaderCrc(m, b) == util_crc16_sw_calculate(Bytes(m, b, SizeofBlockInfo - 2),
                                           SizeofBlockInfo - 2)

updateCRC(m, block) == setCrc(m, block, HeaderCrc(m, block))

updateBlockHeader(m, block, sizeAligned, sizeRequested, allocated, id) ==
  LET m1 == setIsAllocated(m, block, allocated)
      m2 == setSize(m1, block, sizeAligned)
      m3 == setId(m2, block, IdBytes(id))
      m4 == setAlignmentOffset(m3, block,
              IF sizeRequested = 0 THEN 0 ELSE sizeAligned - sizeRequested)
  IN updateCRC(m4, block)

updateBlockBoundary(m, block) ==
  LET boundary == GET_BOUNDARY_TAG(m, block)
      m1 == setIsAllocated(m, boundary, isAllocated(m, block))
      m2 == setSize(m1, boundary, sizeOf(m, block))
      m3 == setId(m2, boundary, idOf(m, block))
      m4 == setAlignmentOffset(m3, boundary, alignmentOffset(m, block))
  IN setCrc(m4, boundary, crcOf(m, block))

isBlockCRCValid(m, block) ==
  LET boundary == GET_BOUNDARY_TAG(m, block)
      headerCrc == HeaderCrc(m, block)
      boundaryCrc == HeaderCrc(m, boundary)
  IN /\ crcOf(m, block) = headerCrc
     /\ crcOf(m, boundary) = boundaryCrc
     /\ headerCrc = boundaryCrc

isBlockValid(m, block) == isBlockCRCValid(m, block)

isBlockHeaderCRCValid(m, block) == crcOf(m, block) = HeaderCrc(m, block)

isBlockBoundaryCRCValid(m, block) ==
  crcOf(m, block) = HeaderCrc(m, GET_BOUNDARY_TAG(m, block))

clearBlockHeader(m, block) == clearMemory(m, block, SizeofBlockInfo)

clearBlockBoundary(m, block) ==
  clearMemory(m, GET_BOUNDARY_TAG(m, block), SizeofBlockInfo)

(***************************************************************************)
(* The state before sheap_init: static storage is zero.                    *)
(***************************************************************************)
NoCall == [op |-> "none", arg |-> 0, ret |-> NULL, reports |-> << >>,
           cls |-> "none", mergedNext |-> FALSE, mergedPrev |-> FALSE,
           split |-> FALSE, status |-> "none", out |-> 0, written |-> FALSE,
           dest |-> << >>, enableMPU |-> FALSE]

\* gMemMutex_id is 0 until sheap_initMutex creates the mutex; a recursive
\* mutex has an owner and a lock count
NoMutex == [created |-> FALSE, owner |-> 0, count |-> 0]

\* no call is in progress
NoInterrupt == [op |-> "none", pc |-> "none", args |-> << >>, busy |-> FALSE]

\* mpu_region_t: the fields that the callers of the driver set differently;
\* cachable, bufferable, shareable, tex and srd are those of fillRegionDefaults
ZeroRegion == [address |-> 0, enabled |-> FALSE, number |-> 0, size |-> 0,
               ap |-> 0, xn |-> FALSE]

\* the MPU after reset: disabled, no region programmed.  TYPE.DREGION is
\* HardwareRegions, RBAR and RASR of every region are held in region
ResetMPU ==
  [CTRL |-> 0, RNR |-> 0,
   region |-> [n \in 0..(HardwareRegions - 1) |->
                 [address |-> 0, enabled |-> FALSE, size |-> 0, ap |-> 0,
                  xn |-> FALSE]]]

\* the statics of stackguard.c before stackguard_init
InitGuard ==
  /\ gNumberOfRegions = 0
  /\ gNextUnusedRegion = 0
  /\ gTasksRegions = [i \in 0..(STACKGUARD_NUMBER_OF_MPU_REGIONS - 1) |->
                        [taskId |-> 0, mpuRegion |-> ZeroRegion]]
  /\ MPU = ResetMPU
  /\ gStackMutex = NoMutex

ZeroHeap == [heapMin |-> NULL, heapMax |-> NULL, currentAllocations |-> 0,
             totalBytesAllocated |-> 0, userDataAllocatedAlligned |-> 0,
             userDataAllocated |-> 0, size |-> 0]

Init ==
  /\ ext \in BOOLEAN
  /\ callocValue \in CallocValues
  /\ mem = [i \in 1..BufferSize |-> 0]
  /\ gStartBlock = NULL
  /\ gHeap = ZeroHeap
  /\ gHeaderIds = [i \in 0..(SHEAP_HEADER_ID_LOG_SIZE - 1) |-> 0]
  /\ gCurrentIDIndex = 0
  /\ allocBusy = FALSE
  /\ freeBusy = FALSE
  /\ live = << >>
  /\ stale = << >>
  /\ last = NoCall
  /\ rtos = FALSE
  /\ gMemMutex = NoMutex
  /\ running = 1
  /\ recorded = << >>
  /\ interrupted = NoInterrupt
  /\ InitGuard

(***************************************************************************)
(* sheap_initMutex, sheap_acquireMutex, sheap_releaseMutex: nothing in the *)
(* build without an RTOS, the recursive CMSIS mutex otherwise.  A task     *)
(* that waits SHEAPERD_DEFAULT_MUTEX_WAIT_TICKS for a mutex whose owner    *)
(* has returned from its call does not get it.                             *)
(***************************************************************************)
sheap_initMutex ==
  IF rtos THEN [created |-> TRUE, owner |-> 0, count |-> 0] ELSE gMemMutex

sheap_acquireMutex ==
  \/ ~rtos
  \/ gMemMutex.created /\ (gMemMutex.count = 0 \/ gMemMutex.owner = running)

AcquireError ==
  IF gMemMutex.created THEN "SHEAPERD_ERROR_MUTEX_ACQUIRE_FAILED"
  ELSE "SHEAPERD_ERROR_MUTEX_IS_NULL"

util_acquireMutex(mutex) ==
  IF rtos THEN [mutex EXCEPT !.owner = running, !.count = @ + 1] ELSE mutex

util_releaseMutex(mutex) ==
  IF ~rtos THEN mutex
  ELSE IF mutex.count = 1 THEN [mutex EXCEPT !.owner = 0, !.count = 0]
  ELSE [mutex EXCEPT !.count = @ - 1]

(***************************************************************************)
(* sheap_init(heapStart, size)                                             *)
(***************************************************************************)
sheap_init(heapStart, size) ==
  /\ UNCHANGED << ext, callocValue, allocBusy, freeBusy, rtos, running,
                  interrupted, guardVars >>
  /\ IF size = 0
     THEN /\ last' = [NoCall EXCEPT !.op = "init", !.arg = size,
                                    !.reports = << "SHEAP_INIT_INVALID_SIZE" >>]
          /\ UNCHANGED << mem, gStartBlock, gHeap, gHeaderIds, gCurrentIDIndex,
                          live, stale, gMemMutex, recorded >>
     ELSE LET m1 == clearMemory(mem, heapStart, size)
              m2 == updateBlockHeader(m1, heapStart, size - 2 * SizeofBlockInfo, 0,
                                      FALSE, SHEAPERD_SHEAP_AUTO_CREATED_BLOCK_ID)
              m3 == updateBlockBoundary(m2, heapStart)
          IN /\ gHeaderIds' = [i \in 0..(SHEAP_HEADER_ID_LOG_SIZE - 1) |-> 0]
             /\ gCurrentIDIndex' = -1
             /\ gHeap' = [heapMin |-> heapStart, heapMax |-> heapStart + size,
                          currentAllocations |-> 0, totalBytesAllocated |-> 0,
                          userDataAllocatedAlligned |-> 0, userDataAllocated |-> 0,
                          size |-> size]
             /\ gStartBlock' = heapStart
             /\ mem' = m3
             /\ live' = << >>
             /\ stale' = << >>
             /\ last' = [NoCall EXCEPT !.op = "init", !.arg = size]
             /\ gMemMutex' = sheap_initMutex
             /\ recorded' = << >>

(***************************************************************************)
(* sheap_logAccess(id): gHeaderIds[(++gCurrentIDIndex) % SIZE] = id        *)
(***************************************************************************)
Int16(x) == IF x > 32767 THEN x - 65536 ELSE x

\* the remainder of C, which truncates towards zero
CRem(a, n) == IF a >= 0 THEN a % n ELSE -((-a) % n)

LogIndex(id) == IF id # 0 THEN Int16(gCurrentIDIndex + 1) ELSE gCurrentIDIndex

LogIds(id) ==
  IF id # 0
  THEN [gHeaderIds EXCEPT ![CRem(LogIndex(id), SHEAP_HEADER_ID_LOG_SIZE)] = id]
  ELSE gHeaderIds

\* the ids the caller has passed, the newest first
Recorded(id) == IF id # 0 THEN << id >> \o recorded ELSE recorded

(***************************************************************************)
(* sheap_align, getNextFreeBlockOfSize (first fit), updateHeapStatistics   *)
(***************************************************************************)
sheap_align(n) ==
  AndNotLow(n + SHEAPERD_SHEAP_MINIMUM_MALLOC_SIZE - 1, SHEAPERD_SHEAP_MINIMUM_MALLOC_SIZE)

\* The loop of getNextFreeBlockOfSize.  The C condition reads the header
\* before it compares current with heapMax; the conjunction has the same
\* value in either order, and is written here with the comparison first.
\* the loop that passes over a free block of exactly the size asked for
RECURSIVE FirstFitWalkStrictlyLarger(_, _, _)
FirstFitWalkStrictlyLarger(m, current, size) ==
  IF current < gHeap.heapMax /\ (isAllocated(m, current) \/ sizeOf(m, current) <= size)
  THEN FirstFitWalkStrictlyLarger(m, GET_NEXT_MEMORY_BLOCK(m, current), size)
  ELSE current

RECURSIVE FirstFitWalk(_, _, _)
FirstFitWalk(m, current, size) ==
  IF ULess(current, gHeap.heapMax)
     /\ (isAllocated(m, current) \/ ULess(sizeOf(m, current), size))
  THEN FirstFitWalk(m, GET_NEXT_MEMORY_BLOCK(m, current), size)
  ELSE current

\* the result that leaves out the check of the CRCs of the block found
FoundBlockUnchecked(m, current) == IF current = NULL \/ ~ULess(current, gHeap.heapMax) THEN [block |-> NULL, reports |-> << "SHEAP_OUT_OF_MEMORY" >>] ELSE [block |-> current, reports |-> << >>]

\* what getNextFreeBlockOfSize returns for the block the loop stopped at
FoundBlock(m, current) ==
  IF current = NULL \/ ~ULess(current, gHeap.heapMax)
  THEN [block |-> NULL, reports |-> << "SHEAP_OUT_OF_MEMORY" >>]
  ELSE IF ~isBlockValid(m, current)
       THEN [block |-> NULL, reports |-> << "SHEAP_ERROR_INVALID_BLOCK" >>]
       ELSE [block |-> current, reports |-> << >>]

\* the search that passes over a free block of exactly the size asked for
getNextFreeBlockOfSizeStrictlyLarger(m, size) ==
  FoundBlock(m, FirstFitWalkStrictlyLarger(m, gStartBlock, size))

getNextFreeBlockOfSize(m, size) == FoundBlock(m, FirstFitWalk(m, gStartBlock, size))

\* the statistics with the requested size taken off as the aligned size on free
updateHeapStatisticsAlignedOnFree(heap, op, allocations, sizeAligned, size, blockSize) ==
  IF op = "MEMORY_OP_ALLOC"
  THEN [heap EXCEPT !.currentAllocations = @ + allocations,
                    !.userDataAllocatedAlligned = @ + sizeAligned,
                    !.userDataAllocated = @ + size,
                    !.totalBytesAllocated = @ + blockSize]
  ELSE [heap EXCEPT !.currentAllocations = @ - allocations,
                    !.userDataAllocatedAlligned = @ - sizeAligned,
                    !.userDataAllocated = @ - sizeAligned,
                    !.totalBytesAllocated = @ - blockSize]

updateHeapStatistics(heap, op, allocations, sizeAligned, size, blockSize) ==
  IF op = "MEMORY_OP_ALLOC"
  THEN [heap EXCEPT !.currentAllocations = @ + allocations,
                    !.userDataAllocatedAlligned = @ + sizeAligned,
                    !.userDataAllocated = @ + size,
                    !.totalBytesAllocated = @ + blockSize]
  ELSE [heap EXCEPT !.currentAllocations = @ - allocations,
                    !.userDataAllocatedAlligned = @ - sizeAligned,
                    !.userDataAllocated = @ - size,
                    !.totalBytesAllocated = @ - blockSize]

(***************************************************************************)
(* allocateBlock(size, id, initializePayload): the result as a record of   *)
(* the returned payload pointer, the memory and the statistics after it.   *)
(***************************************************************************)
\* the test that leaves out the minimum payload of the block behind
TakesWholeBlockBelowTags(preAllocSize, sizeAligned) == preAllocSize < GET_BLOCK_OVERHEAD_SIZE(sizeAligned) + 2 * SizeofBlockInfo

\* whether the candidate is taken whole because no block of minimum size
\* fits behind the allocation
TakesWholeBlock(preAllocSize, sizeAligned) ==
  preAllocSize < GET_BLOCK_OVERHEAD_SIZE(sizeAligned)
                 + (SHEAPERD_SHEAP_MINIMUM_MALLOC_SIZE + 2 * SizeofBlockInfo)

\* sizeAligned after the test of lines 303-307
AllocatedSize(preAllocSize, size) ==
  IF TakesWholeBlock(preAllocSize, sheap_align(size))
  THEN preAllocSize
  ELSE sheap_align(size)

\* lines 309-319: the header of the allocated block, its CRC and its boundary tag
MarkAllocated(m, allocate, sizeAligned, size, id) ==
  LET m1 == setIsAllocated(m, allocate, TRUE)
      m2 == setSize(m1, allocate, sizeAligned)
      m3 == setId(m2, allocate, IdBytes(id))
      m4 == setAlignmentOffset(m3, allocate, sizeAligned - size)
  IN updateBlockBoundary(updateCRC(m4, allocate), allocate)

\* the remaining block sized without taking off the two tags of the allocated one
SplitRemainingKeepsTags(m, allocate, preAllocSize, sizeAligned) ==
  LET remainingBlock == GET_NEXT_MEMORY_BLOCK(m, allocate) IN
  IF sizeOf(m, allocate) < preAllocSize
  THEN updateBlockBoundary(
         updateBlockHeader(m, remainingBlock, preAllocSize - sizeAligned,
                           0, FALSE, SHEAPERD_SHEAP_AUTO_CREATED_BLOCK_ID),
         remainingBlock)
  ELSE m

\* lines 323-332: the block created behind the allocated one
SplitRemaining(m, allocate, preAllocSize, sizeAligned) ==
  LET remainingBlock == GET_NEXT_MEMORY_BLOCK(m, allocate) IN
  IF sizeOf(m, allocate) < preAllocSize
  THEN updateBlockBoundary(
         updateBlockHeader(m, remainingBlock,
                           preAllocSize - GET_BLOCK_OVERHEAD_SIZE(sizeAligned),
                           0, FALSE, SHEAPERD_SHEAP_AUTO_CREATED_BLOCK_ID),
         remainingBlock)
  ELSE m

\* lines 334-339: calloc fills from the payload up to the boundary tag
InitializePayload(m, allocate, initializePayload) ==
  LET payload == allocate + SizeofBlockInfo IN
  IF initializePayload
  THEN FillMemory(m, payload, GET_BOUNDARY_TAG(m, allocate) - payload, callocValue)
  ELSE m

\* the allocation that returns the address of the header for the payload
AllocateMarkedReturnsHeader(m5, heap, size, initializePayload, allocate, preAllocSize, sizeAligned) ==
  [ret |-> allocate,
   mem |-> InitializePayload(SplitRemaining(m5, allocate, preAllocSize, sizeAligned),
                             allocate, initializePayload),
   heap |-> updateHeapStatistics(heap, "MEMORY_OP_ALLOC", 1, sizeAligned, size,
                                 GET_BLOCK_OVERHEAD_SIZE(sizeAligned)),
   reports |-> << >>,
   split |-> sizeOf(m5, allocate) < preAllocSize]

\* lines 302-340 for the block found, m5 being the memory after line 319
AllocateMarked(m5, heap, size, initializePayload, allocate, preAllocSize, sizeAligned) ==
  [ret |-> allocate + SizeofBlockInfo,
   mem |-> InitializePayload(SplitRemaining(m5, allocate, preAllocSize, sizeAligned),
                             allocate, initializePayload),
   heap |-> updateHeapStatistics(heap, "MEMORY_OP_ALLOC", 1, sizeAligned, size,
                                 GET_BLOCK_OVERHEAD_SIZE(sizeAligned)),
   reports |-> << >>,
   split |-> sizeOf(m5, allocate) < preAllocSize]

AllocateFound(m, heap, size, id, initializePayload, allocate, preAllocSize) ==
  AllocateMarked(MarkAllocated(m, allocate, AllocatedSize(preAllocSize, size), size, id),
                 heap, size, initializePayload, allocate, preAllocSize,
                 AllocatedSize(preAllocSize, size))

AllocateIn(m, heap, size, id, initializePayload, found) ==
  IF found.block = NULL
  THEN [ret |-> NULL, mem |-> m, heap |-> heap, reports |-> found.reports,
        split |-> FALSE]
  ELSE AllocateFound(m, heap, size, id, initializePayload, found.block,
                     sizeOf(m, found.block))

allocateBlock(m, heap, size, id, initializePayload) ==
  AllocateIn(m, heap, size, id, initializePayload,
             getNextFreeBlockOfSize(m, sheap_align(size)))

(***************************************************************************)
(* sheap_alloc_impl(size, id, initializeData), reached through             *)
(* sheap_malloc(size, id) and sheap_calloc(num, size, id)                  *)
(***************************************************************************)
AllocReturns(op, size, id, r) ==
  /\ mem' = r.mem
  /\ gHeap' = r.heap
  /\ last' = [NoCall EXCEPT !.op = op, !.arg = IF r.ret # NULL THEN size ELSE 0,
                            !.ret = r.ret, !.reports = r.reports, !.split = r.split]
  /\ IF r.ret # NULL
     THEN /\ live' = (r.ret :> [size |-> size, zeroed |-> (op = "calloc"),
                                fault |-> "none", id |-> id]) @@ live
          /\ stale' = SelectSeq(stale, LAMBDA e : e.ptr # r.ret)
     ELSE UNCHANGED << live, stale >>

\* sheap_alloc_impl from the test of allocBusy on, busy being the value read
sheap_alloc_from(busy, op, size, id, initializeData) ==
  /\ UNCHANGED << ext, callocValue, gStartBlock, freeBusy, rtos, running,
                  guardVars >>
  /\ IF ~rtos /\ busy
     THEN /\ last' = [NoCall EXCEPT !.op = op,
                                    !.reports = << "SHEAP_MALLOC_CALL_OVERLAP" >>]
          /\ UNCHANGED << mem, gHeap, gHeaderIds, gCurrentIDIndex, allocBusy,
                          live, stale, gMemMutex, recorded >>
     ELSE IF gHeap.heapMin = NULL
     THEN /\ allocBusy' = FALSE
          /\ last' = [NoCall EXCEPT !.op = op,
                                    !.reports = << "SHEAP_NOT_INITIALIZED" >>]
          /\ UNCHANGED << mem, gHeap, gHeaderIds, gCurrentIDIndex,
                          live, stale, gMemMutex, recorded >>
     ELSE IF ~sheap_acquireMutex
     THEN /\ last' = [NoCall EXCEPT !.op = op, !.reports = << AcquireError >>]
          /\ UNCHANGED << mem, gHeap, gHeaderIds, gCurrentIDIndex, allocBusy,
                          live, stale, gMemMutex, recorded >>
     ELSE /\ gHeaderIds' = LogIds(id)
          /\ gCurrentIDIndex' = LogIndex(id)
          /\ recorded' = Recorded(id)
          /\ allocBusy' = FALSE
          /\ IF size = 0
             THEN /\ last' = [NoCall EXCEPT !.op = op,
                                            !.reports = << "SHEAP_SIZE_ZERO_ALLOC" >>]
                  /\ gMemMutex' = util_acquireMutex(gMemMutex)
                  /\ UNCHANGED << mem, gHeap, live, stale >>
             ELSE /\ AllocReturns(op, size, id,
                                  allocateBlock(mem, gHeap, size, id, initializeData))
                  /\ gMemMutex' = util_releaseMutex(util_acquireMutex(gMemMutex))

sheap_alloc_impl(op, size, id, initializeData) ==
  /\ sheap_alloc_from(allocBusy, op, size, id, initializeData)
  /\ UNCHANGED interrupted

sheap_malloc(size, id) == sheap_alloc_impl("malloc", size, id, FALSE)

\* a + b on uint32_t operands, a value of 2^31 or more being held as the
\* negative number with the same 32 bits
SizePlus(a, b) ==
  LET la == Trunc31(a)
      lb == Trunc31(b)
      carry == la > 2147483647 - lb
      low == IF carry THEN (la - (2147483647 - lb)) - 1 ELSE la + lb
      top == ((IF a < 0 THEN 1 ELSE 0) + (IF b < 0 THEN 1 ELSE 0)
               + (IF carry THEN 1 ELSE 0)) % 2 = 1
  IN IF top THEN (low - 2147483647) - 1 ELSE low

\* f * x on uint32_t operands, f being 256 or 65536: the bits of x that stay
\* below 2^32, the top bit making the number negative
TimesPower(x, f) ==
  LET m == (65536 \div f) * 65536
      y == x % m
  IN IF y >= m \div 2 THEN (y - m) * f ELSE y * f

\* num * size on size_t operands: the low 32 bits of the product, put together
\* from the products of the 16-bit halves; the operands passed are below 2^31
SizeTimes(num, size) ==
  LET nl == num % 65536
      nh == num \div 65536
      sl == size % 65536
      sh == size \div 65536
  IN SizePlus(SizePlus(nl * (sl % 256), TimesPower(nl * (sl \div 256), 256)),
              TimesPower(((nh * sl) % 65536) + ((nl * sh) % 65536), 65536))

sheap_calloc(num, size, id) ==
  sheap_alloc_impl("calloc", SizeTimes(num, size), id, TRUE)

(***************************************************************************)
(* The caller stores into the bytes it asked for.                          *)
(***************************************************************************)
caller_write(p, v) ==
  /\ p \in DOMAIN live
  /\ mem' = FillMemory(mem, p, live[p].size, v)
  /\ UNCHANGED << ext, callocValue, gStartBlock, gHeap, gHeaderIds, gCurrentIDIndex,
                  allocBusy, freeBusy, live, stale, last, rtos, gMemMutex,
                  running, recorded, interrupted, guardVars >>

(***************************************************************************)
(* sheap_free(ptr, id) and its helpers                                     *)
(***************************************************************************)
\* the check that leaves out the last byte of the padding
checkForIllegalWriteButLast(m, block) ==
  LET requestedSize == sizeOf(m, block) - alignmentOffset(m, block)
      pAfterPayload == block + SizeofBlockInfo + requestedSize
  IN \E i \in 0..(alignmentOffset(m, block) - 2) :
       Byte(m, pAfterPayload + i) # SHEAPERD_SHEAP_OVERWRITE_VALUE

checkForIllegalWrite(m, block) ==
  LET requestedSize == sizeOf(m, block) - alignmentOffset(m, block)
      pAfterPayload == block + SizeofBlockInfo + requestedSize
  IN \E i \in 0..(alignmentOffset(m, block) - 1) :
       Byte(m, pAfterPayload + i) # SHEAPERD_SHEAP_OVERWRITE_VALUE

\* the test of the previous boundary tag against the wrong end of the arena
isPreviousBlockFreeFromMax(m, block) ==
  LET prevBoundary == block - SizeofBlockInfo
  IN prevBoundary >= gHeap.heapMax /\ ~isAllocated(m, prevBoundary)

isPreviousBlockFree(m, block) ==
  LET prevBoundary == block - SizeofBlockInfo
  IN prevBoundary >= gHeap.heapMin /\ ~isAllocated(m, prevBoundary)

isNextBlockFree(m, block) ==
  LET next == GET_NEXT_MEMORY_BLOCK(m, block)
  IN /\ next < gHeap.heapMax
              - GET_BLOCK_OVERHEAD_SIZE(SHEAPERD_SHEAP_MINIMUM_MALLOC_SIZE)
     /\ ~isAllocated(m, next)

\* lines 412-422 of coalesce: the merge with the next block
CoalesceNext(m, block) ==
  LET next == GET_NEXT_MEMORY_BLOCK(m, block) IN
  IF isNextBlockFree(m, block)
  THEN IF isBlockValid(m, next)
       THEN [mem |-> clearBlockBoundary(clearBlockHeader(m, next), block),
             size |-> sizeOf(m, block) + sizeOf(m, next) + 2 * SizeofBlockInfo,
             reports |-> << >>, mergedNext |-> TRUE]
       ELSE [mem |-> m, size |-> sizeOf(m, block),
             reports |-> << "SHEAP_ERROR_COALESCING_NEXT_BLOCK_ALTERED_INVALID_CRC" >>,
             mergedNext |-> FALSE]
  ELSE [mem |-> m, size |-> sizeOf(m, block), reports |-> << >>, mergedNext |-> FALSE]

\* lines 423-433 of coalesce: the merge with the previous block, n being the
\* memory and the local size after the lines above
CoalescePrev(n, block) ==
  LET prev == GET_PREV_MEMORY_BLOCK(n.mem, block) IN
  IF isPreviousBlockFree(n.mem, block)
  THEN IF isBlockValid(n.mem, prev)
       THEN [block |-> prev,
             mem |-> clearBlockBoundary(clearBlockHeader(n.mem, block), prev),
             size |-> n.size + sizeOf(n.mem, prev) + 2 * SizeofBlockInfo,
             reports |-> n.reports, mergedNext |-> n.mergedNext, mergedPrev |-> TRUE]
       ELSE [block |-> block, mem |-> n.mem, size |-> n.size,
             reports |-> n.reports
                \o << "SHEAP_ERROR_COALESCING_PREV_BLOCK_ALTERED_INVALID_CRC" >>,
             mergedNext |-> n.mergedNext, mergedPrev |-> FALSE]
  ELSE [block |-> block, mem |-> n.mem, size |-> n.size, reports |-> n.reports,
        mergedNext |-> n.mergedNext, mergedPrev |-> FALSE]

\* the end of coalesce that leaves the alignment offset of the block as it was
CoalesceEndKeepsOffset(p) ==
  [block |-> p.block, mem |-> setSize(p.mem, p.block, p.size),
   reports |-> p.reports, mergedNext |-> p.mergedNext, mergedPrev |-> p.mergedPrev]

\* lines 434-436 of coalesce
CoalesceEnd(p) ==
  [block |-> p.block,
   mem |-> setAlignmentOffset(setSize(p.mem, p.block, p.size), p.block, 0),
   reports |-> p.reports, mergedNext |-> p.mergedNext, mergedPrev |-> p.mergedPrev]

\* coalesce(&block): the block after merging, the memory, and what was reported
coalesce(m, block) == CoalesceEnd(CoalescePrev(CoalesceNext(m, block), block))

\* the release that leaves the CRC of the merged header as it was
ReleaseEndKeepsCrc(c, heap, id) ==
  [mem |-> updateBlockBoundary(setId(c.mem, c.block, IdBytes(id)), c.block),
   heap |-> heap, reports |-> c.reports, freed |-> TRUE,
   mergedNext |-> c.mergedNext, mergedPrev |-> c.mergedPrev]

\* lines 397-401 of sheap_free, c being what coalesce returned
ReleaseEnd(c, heap, id) ==
  [mem |-> updateBlockBoundary(updateCRC(setId(c.mem, c.block, IdBytes(id)), c.block),
                               c.block),
   heap |-> heap, reports |-> c.reports, freed |-> TRUE,
   mergedNext |-> c.mergedNext, mergedPrev |-> c.mergedPrev]

\* lines 391-401 of sheap_free, m1 being the memory after line 390
ReleaseUnmarked(m1, heap, ptr, current, id) ==
  ReleaseEnd(coalesce(clearMemory(m1, ptr, sizeOf(m1, current)), current),
             updateHeapStatistics(heap, "MEMORY_OP_FREE", 1, sizeOf(m1, current),
                                  sizeOf(m1, current) - alignmentOffset(m1, current),
                                  GET_BLOCK_OVERHEAD_SIZE(sizeOf(m1, current))),
             id)

\* the part of sheap_free behind the checks of the pointer and the CRCs
releaseBlock(m, heap, ptr, id) ==
  ReleaseUnmarked(setIsAllocated(m, PAYLOAD_BLOCK_TO_MEMORY_BLOCK(ptr), FALSE), heap, ptr,
                  PAYLOAD_BLOCK_TO_MEMORY_BLOCK(ptr), id)

\* the refusal that has taken the block off the statistics before the checks
RefusesAfterCounting(m, heap, kind) ==
  [mem |-> m, heap |-> [heap EXCEPT !.currentAllocations = @ - 1],
   reports |-> << kind >>, freed |-> FALSE, mergedNext |-> FALSE, mergedPrev |-> FALSE]

Refuses(m, heap, kind) ==
  [mem |-> m, heap |-> heap, reports |-> << kind >>, freed |-> FALSE,
   mergedNext |-> FALSE, mergedPrev |-> FALSE]

freeChecked(m, heap, ptr, id) ==
  LET current == PAYLOAD_BLOCK_TO_MEMORY_BLOCK(ptr) IN
  IF ptr = NULL
  THEN Refuses(m, heap, "SHEAP_ERROR_NULL_FREE")
  ELSE IF ptr < heap.heapMin \/ ptr > heap.heapMax
  THEN Refuses(m, heap, "SHEAP_ERROR_FREE_PTR_NOT_IN_HEAP")
  ELSE IF current = NULL
  THEN Refuses(m, heap, "SHEAP_ERROR_FREE_INVALID_HEADER")
  ELSE IF ~isBlockHeaderCRCValid(m, current)
  THEN Refuses(m, heap, "SHEAP_ERROR_FREE_INVALID_HEADER")
  ELSE IF ~isBlockBoundaryCRCValid(m, current)
  THEN Refuses(m, heap, "SHEAP_ERROR_FREE_INVALID_BOUNDARY")
  ELSE IF checkForIllegalWrite(m, current)
  THEN Refuses(m, heap, "SHEAP_ERROR_OUT_OF_BOUND_WRITE")
  ELSE IF isAllocated(m, current)
  THEN releaseBlock(m, heap, ptr, id)
  ELSE Refuses(m, heap, "SHEAP_ERROR_DOUBLE_FREE")

StalePointers == {stale[i].ptr : i \in DOMAIN stale}

\* the caller's record of the pointer it released last
Released(ptr, r) ==
  << [ptr |-> ptr, zeroed |-> live[ptr].zeroed, fault |-> live[ptr].fault,
      mergedNext |-> r.mergedNext, mergedPrev |-> r.mergedPrev] >>

PointerClass(ptr) ==
  IF ptr = NULL THEN "null"
  ELSE IF ptr \in DOMAIN live THEN "live"
  ELSE IF ptr \in StalePointers THEN "stale"
  ELSE "outside"

\* the argument as the caller's record keeps it: a pointer it holds or has
\* released, and NULL for any other
HeldOrReleased(ptr) ==
  IF PointerClass(ptr) \in {"live", "stale"} THEN ptr ELSE NULL

FreeReturns(ptr, r) ==
  /\ mem' = r.mem
  /\ gHeap' = r.heap
  /\ last' = [NoCall EXCEPT !.op = "free", !.arg = HeldOrReleased(ptr),
                            !.cls = PointerClass(ptr), !.reports = r.reports,
                            !.mergedNext = r.mergedNext,
                            !.mergedPrev = r.mergedPrev]
  /\ IF ptr \in DOMAIN live /\ r.freed
     THEN /\ live' = [q \in DOMAIN live \ {ptr} |-> live[q]]
          /\ stale' = Released(ptr, r)
     ELSE UNCHANGED << live, stale >>

\* sheap_free from the test of freeBusy on, busy being the value read
sheap_free_from(busy, ptr, id) ==
  /\ UNCHANGED << ext, callocValue, gStartBlock, allocBusy, rtos, running,
                  guardVars >>
  /\ IF ~rtos /\ busy
     THEN /\ last' = [NoCall EXCEPT !.op = "free", !.arg = HeldOrReleased(ptr),
                                    !.cls = PointerClass(ptr),
                                    !.reports = << "SHEAP_FREE_CALL_OVERLAP" >>]
          /\ UNCHANGED << mem, gHeap, gHeaderIds, gCurrentIDIndex, freeBusy,
                          live, stale, gMemMutex, recorded >>
     ELSE IF ~sheap_acquireMutex
     THEN /\ last' = [NoCall EXCEPT !.op = "free", !.arg = HeldOrReleased(ptr),
                                    !.cls = PointerClass(ptr),
                                    !.reports = << AcquireError >>]
          /\ UNCHANGED << mem, gHeap, gHeaderIds, gCurrentIDIndex, freeBusy,
                          live, stale, gMemMutex, recorded >>
     ELSE /\ gHeaderIds' = LogIds(id)
          /\ gCurrentIDIndex' = LogIndex(id)
          /\ recorded' = Recorded(id)
          /\ freeBusy' = FALSE
          /\ FreeReturns(ptr, freeChecked(mem, gHeap, ptr, id))
          /\ gMemMutex' = util_releaseMutex(util_acquireMutex(gMemMutex))

sheap_free(ptr, id) ==
  /\ sheap_free_from(freeBusy, ptr, id)
  /\ UNCHANGED interrupted

\* the pointers the caller passes to sheap_free: null, one below and one above
\* the arena, those it holds and those it has released
FreePointers ==
  {NULL, BufferBase - 4, gHeap.heapMax + 4} \cup DOMAIN live \cup StalePointers

\* the caller stores into the allocation at the start of the arena
WritePointers == DOMAIN live \cap {gStartBlock + SizeofBlockInfo}

Next ==
  \/ \E size \in ArenaSizes : sheap_init(BufferBase, size)
  \/ \E size \in MallocSizes, id \in CallerIds : sheap_malloc(size, id)
  \/ \E a \in CallocArgs, id \in CallerIds : sheap_calloc(a[1], a[2], id)
  \/ \E p \in FreePointers, id \in CallerIds : sheap_free(p, id)
  \/ \E p \in WritePointers, v \in CallerBytes : caller_write(p, v)

Spec == Init /\ [][Next]_vars

(***************************************************************************)
(* The same calls with requests up to the largest size_t: the size of the  *)
(* arena and the four sizes closest to SIZE_MAX.                           *)
(***************************************************************************)
WideSizes == {3, gHeap.size} \cup {SIZE_MAX - k : k \in 0..3}

NextSizes ==
  \/ \E size \in ArenaSizes : sheap_init(BufferBase, size)
  \/ \E size \in WideSizes, id \in CallerIds : sheap_malloc(size, id)
  \/ \E p \in DOMAIN live, id \in CallerIds : sheap_free(p, id)

SpecSizes == Init /\ [][NextSizes]_vars

(***************************************************************************)
(* A heap of 1 KiB with the compact header, used by a caller that passes   *)
(* the id 1 to sheap_malloc and the id 2 to sheap_free.                    *)
(***************************************************************************)
KiBArenaSize == 4 * 256

\* size_t sheap_getAllocatedBytes(): return gHeap.userDataAllocated
sheap_getAllocatedBytes(heap) == heap.userDataAllocated

InitKiB ==
  /\ ext = FALSE
  /\ callocValue = SHEAPERD_SHEAP_OVERWRITE_VALUE
  /\ mem = [i \in 1..KiBArenaSize |-> 0]
  /\ gStartBlock = NULL
  /\ gHeap = ZeroHeap
  /\ gHeaderIds = [i \in 0..(SHEAP_HEADER_ID_LOG_SIZE - 1) |-> 0]
  /\ gCurrentIDIndex = 0
  /\ allocBusy = FALSE
  /\ freeBusy = FALSE
  /\ live = << >>
  /\ stale = << >>
  /\ last = NoCall
  /\ rtos = FALSE
  /\ gMemMutex = NoMutex
  /\ running = 1
  /\ recorded = << >>
  /\ interrupted = NoInterrupt
  /\ InitGuard

ScenarioSizes == {5, 16}

NextKiB ==
  \/ sheap_init(BufferBase, KiBArenaSize)
  \/ \E size \in ScenarioSizes :
       gCurrentIDIndex < MaxScenarioCalls - 1 /\ sheap_malloc(size, 1)
  \/ \E p \in DOMAIN live :
       gCurrentIDIndex < MaxScenarioCalls - 1 /\ sheap_free(p, 2)

SpecKiB == InitKiB /\ [][NextKiB]_vars

(***************************************************************************)
(* A caller that breaks the rules: it stores past the bytes it asked for,  *)
(* into the alignment padding or into the boundary tag of its block, and   *)
(* it passes to sheap_free the ends of the arena.  The arena lies inside   *)
(* a larger buffer of the embedder, so that what sheap_free reads before   *)
(* heapMin and behind heapMax are bytes of that buffer; their value is     *)
(* any of OutsideBytes.                                                    *)
(***************************************************************************)
GuardBytes == SizeofBlockInfo
FaultArenaSize == 6 * SizeofBlockInfo + 4 + 4 * ArenaSlack
FaultBufferSize == GuardBytes + 2 * FaultArenaSize
OutsideBytes == {0, 255}
OverrunBytes == {165, 255}
TagBytesWritten == {165}

InitFaults ==
  /\ ext \in BOOLEAN
  /\ callocValue = SHEAPERD_SHEAP_OVERWRITE_VALUE
  /\ \E fill \in OutsideBytes : mem = [i \in 1..FaultBufferSize |-> fill]
  /\ gStartBlock = NULL
  /\ gHeap = ZeroHeap
  /\ gHeaderIds = [i \in 0..(SHEAP_HEADER_ID_LOG_SIZE - 1) |-> 0]
  /\ gCurrentIDIndex = 0
  /\ allocBusy = FALSE
  /\ freeBusy = FALSE
  /\ live = << >>
  /\ stale = << >>
  /\ last = NoCall
  /\ rtos = FALSE
  /\ gMemMutex = NoMutex
  /\ running = 1
  /\ recorded = << >>
  /\ interrupted = NoInterrupt
  /\ InitGuard

\* the caller has broken no rule on the blocks it holds; it breaks one at a time
NoFault == \A q \in DOMAIN live : live[q].fault = "none"

\* the caller stores n bytes v behind the last byte it asked for, all of them
\* within the alignment padding of its block
caller_overrun(p, n, v) ==
  /\ p \in DOMAIN live
  /\ NoFault
  /\ n <= alignmentOffset(mem, PAYLOAD_BLOCK_TO_MEMORY_BLOCK(p))
  /\ mem' = FillMemory(mem, p + live[p].size, n, v)
  /\ live' = [live EXCEPT ![p].fault =
                IF v = SHEAPERD_SHEAP_OVERWRITE_VALUE THEN "padding, pattern"
                ELSE "padding"]
  /\ UNCHANGED << ext, callocValue, gStartBlock, gHeap, gHeaderIds, gCurrentIDIndex,
                  allocBusy, freeBusy, stale, last, rtos, gMemMutex, running,
                  recorded, interrupted, guardVars >>

\* the caller changes the byte at offset off of the boundary tag of its block
caller_corrupt_boundary(p, off, v) ==
  /\ p \in DOMAIN live
  /\ NoFault
  /\ Byte(mem, GET_BOUNDARY_TAG(mem, PAYLOAD_BLOCK_TO_MEMORY_BLOCK(p)) + off) # v
  /\ mem' = FillMemory(mem, GET_BOUNDARY_TAG(mem, PAYLOAD_BLOCK_TO_MEMORY_BLOCK(p)) + off,
                       1, v)
  /\ live' = [live EXCEPT ![p].fault = IF off >= OffCrc THEN "boundary crc"
                                       ELSE "boundary"]
  /\ UNCHANGED << ext, callocValue, gStartBlock, gHeap, gHeaderIds, gCurrentIDIndex,
                  allocBusy, freeBusy, stale, last, rtos, gMemMutex, running,
                  recorded, interrupted, guardVars >>

\* the ends of the arena: no payload starts there
EdgePointers == {gHeap.heapMin, gHeap.heapMin + 4, gHeap.heapMax} \ {NULL}

\* lines 362-375 of sheap_free: past the comparison with heapMin and heapMax
\* the header is read at ptr - sizeof(header), and behind a header whose CRC
\* matches the boundary tag is read at the address the header's size gives
FreeReadsOutside(m, heap, ptr) ==
  /\ ptr # NULL
  /\ ~(ptr < heap.heapMin \/ ptr > heap.heapMax)
  /\ \/ PAYLOAD_BLOCK_TO_MEMORY_BLOCK(ptr) < heap.heapMin
     \/ /\ isBlockHeaderCRCValid(m, PAYLOAD_BLOCK_TO_MEMORY_BLOCK(ptr))
        /\ GET_BOUNDARY_TAG(m, PAYLOAD_BLOCK_TO_MEMORY_BLOCK(ptr)) + SizeofBlockInfo
             > heap.heapMax

FaultFreePointers ==
  {NULL, BufferBase} \cup EdgePointers \cup DOMAIN live \cup StalePointers

NextFaults ==
  \/ sheap_init(BufferBase + GuardBytes, FaultArenaSize)
  \/ \E size \in {3}, id \in CallerIds : sheap_malloc(size, id)
  \/ \E p \in FaultFreePointers, id \in CallerIds : sheap_free(p, id)
  \/ \E p \in DOMAIN live, n \in 1..3, v \in OverrunBytes : caller_overrun(p, n, v)
  \/ \E p \in DOMAIN live, off \in 0..(SizeofBlockInfo - 1), v \in TagBytesWritten :
       caller_corrupt_boundary(p, off, v)

SpecFaults == InitFaults /\ [][NextFaults]_vars

(***************************************************************************)
(* sheap_getLatestAllocationIDs(destination, n)                            *)
(***************************************************************************)
\* x % n for the uint32_t that the integer x stands for: 2^32 = 65536 * 65536
UMod(x, n) ==
  IF x >= 0 THEN x % n ELSE (((65536 % n) * (65536 % n)) + (x % n)) % n

RECURSIVE LatestIdsLoop(_, _, _)
LatestIdsLoop(index, n, destination) ==
  IF /\ gHeaderIds[UMod(index, SHEAP_HEADER_ID_LOG_SIZE)] # 0
     /\ Len(destination) < n
     /\ Len(destination) < SHEAP_HEADER_ID_LOG_SIZE
  THEN LatestIdsLoop(index - 1, n,
                     Append(destination,
                            gHeaderIds[UMod(index, SHEAP_HEADER_ID_LOG_SIZE)]))
  ELSE destination

sheap_getLatestAllocationIDs(n) ==
  /\ last' = [NoCall EXCEPT !.op = "getLatestAllocationIDs", !.arg = n,
                            !.ret = Len(LatestIdsLoop(gCurrentIDIndex, n, << >>)),
                            !.dest = LatestIdsLoop(gCurrentIDIndex, n, << >>)]
  /\ UNCHANGED << ext, callocValue, mem, gStartBlock, gHeap, gHeaderIds,
                  gCurrentIDIndex, allocBusy, freeBusy, live, stale, rtos,
                  gMemMutex, running, recorded, interrupted, guardVars >>

(***************************************************************************)
(* sheap_getAllocationID(ptr, id), of the build with the extended header   *)
(***************************************************************************)
getAllocationIDStatus(m, heap, ptr) ==
  IF ptr = NULL THEN "SHEAP_INVALID_POINTER"
  ELSE IF ptr < heap.heapMin \/ ptr > heap.heapMax THEN "SHEAP_INVALID_POINTER"
  ELSE IF PAYLOAD_BLOCK_TO_MEMORY_BLOCK(ptr) = NULL THEN "SHEAP_INVALID_POINTER"
  ELSE IF ~isBlockHeaderCRCValid(m, PAYLOAD_BLOCK_TO_MEMORY_BLOCK(ptr))
  THEN "SHEAP_INVALID_POINTER"
  ELSE IF ~isBlockBoundaryCRCValid(m, PAYLOAD_BLOCK_TO_MEMORY_BLOCK(ptr))
  THEN "SHEAP_INVALID_POINTER"
  ELSE "SHEAP_OK"

\* *id = current->id: the four id bytes of the header, read as a uint32_t;
\* the ids of the callers modelled stay below 2^31
IdRead(m, block) ==
  idOf(m, block)[1] + 256 * idOf(m, block)[2] + 65536 * idOf(m, block)[3]
    + 16777216 * idOf(m, block)[4]

IdQueried(ptr, status) ==
  /\ last' = [NoCall EXCEPT !.op = "getAllocationID", !.arg = ptr,
                            !.cls = PointerClass(ptr), !.status = status,
                            !.written = (status = "SHEAP_OK"),
                            !.out = IF status = "SHEAP_OK"
                                    THEN IdRead(mem, PAYLOAD_BLOCK_TO_MEMORY_BLOCK(ptr))
                                    ELSE 0]
  /\ gMemMutex' = IF status = "SHEAP_OK"
                  THEN util_releaseMutex(util_acquireMutex(gMemMutex))
                  ELSE util_acquireMutex(gMemMutex)

sheap_getAllocationID(ptr) ==
  /\ ext
  /\ UNCHANGED << ext, callocValue, mem, gStartBlock, gHeap, gHeaderIds,
                  gCurrentIDIndex, allocBusy, freeBusy, live, stale, rtos,
                  running, recorded, interrupted, guardVars >>
  /\ IF ~sheap_acquireMutex
     THEN /\ last' = [NoCall EXCEPT !.op = "getAllocationID", !.arg = ptr,
                                    !.cls = PointerClass(ptr),
                                    !.status = "SHEAP_ERROR",
                                    !.reports = << AcquireError >>]
          /\ UNCHANGED gMemMutex
     ELSE IdQueried(ptr, getAllocationIDStatus(mem, gHeap, ptr))

(***************************************************************************)
(* A caller that passes a fresh id with every call, on an arena of two     *)
(* smallest blocks with the extended header, and asks for the latest ids   *)
(* and for the id of the pointers it holds or has released.                *)
(***************************************************************************)
IdsArenaSize == 4 * 12 + 2 * SHEAPERD_SHEAP_MINIMUM_MALLOC_SIZE

InitIds ==
  /\ ext = TRUE
  /\ callocValue = SHEAPERD_SHEAP_OVERWRITE_VALUE
  /\ mem = [i \in 1..IdsArenaSize |-> 0]
  /\ gStartBlock = NULL
  /\ gHeap = ZeroHeap
  /\ gHeaderIds = [i \in 0..(SHEAP_HEADER_ID_LOG_SIZE - 1) |-> 0]
  /\ gCurrentIDIndex = 0
  /\ allocBusy = FALSE
  /\ freeBusy = FALSE
  /\ live = << >>
  /\ stale = << >>
  /\ last = NoCall
  /\ rtos = FALSE
  /\ gMemMutex = NoMutex
  /\ running = 1
  /\ recorded = << >>
  /\ interrupted = NoInterrupt
  /\ InitGuard

FreshIds == {0, Len(recorded) + 1}
LatestCounts == {3, SHEAP_HEADER_ID_LOG_SIZE}
QueriedPointers == {NULL} \cup DOMAIN live \cup StalePointers

NextIds ==
  \/ sheap_init(BufferBase, IdsArenaSize)
  \/ /\ Len(recorded) < MaxRecorded
     /\ \E id \in FreshIds : sheap_malloc(3, id)
  \/ /\ Len(recorded) < MaxRecorded
     /\ \E p \in DOMAIN live \cup StalePointers, id \in FreshIds : sheap_free(p, id)
  \/ \E n \in LatestCounts : sheap_getLatestAllocationIDs(n)
  \/ \E p \in QueriedPointers : sheap_getAllocationID(p)

SpecIds == InitIds /\ [][NextIds]_vars

(***************************************************************************)
(* The build with the CMSIS-RTOS2 mutex: two tasks call into the heap, one *)
(* call at a time, and the scheduler switches between them while no call   *)
(* is in progress.                                                         *)
(***************************************************************************)
Tasks == {1, 2}

context_switch(t) ==
  /\ t # running
  /\ running' = t
  /\ UNCHANGED << ext, callocValue, mem, gStartBlock, gHeap, gHeaderIds,
                  gCurrentIDIndex, allocBusy, freeBusy, live, stale, last, rtos,
                  gMemMutex, recorded, interrupted, guardVars >>

MutexArenaSize == 4 * 8 + 2 * SHEAPERD_SHEAP_MINIMUM_MALLOC_SIZE

InitMutex ==
  /\ ext = FALSE
  /\ callocValue = SHEAPERD_SHEAP_OVERWRITE_VALUE
  /\ mem = [i \in 1..MutexArenaSize |-> 0]
  /\ gStartBlock = NULL
  /\ gHeap = ZeroHeap
  /\ gHeaderIds = [i \in 0..(SHEAP_HEADER_ID_LOG_SIZE - 1) |-> 0]
  /\ gCurrentIDIndex = 0
  /\ allocBusy = FALSE
  /\ freeBusy = FALSE
  /\ live = << >>
  /\ stale = << >>
  /\ last = NoCall
  /\ rtos = TRUE
  /\ gMemMutex = NoMutex
  /\ running = 1
  /\ recorded = << >>
  /\ interrupted = NoInterrupt
  /\ InitGuard

\* requests of no byte, of three bytes and of more than the arena holds
MutexSizes == {0, 3, 2 * MutexArenaSize}

NextMutex ==
  \/ sheap_init(BufferBase, MutexArenaSize)
  \/ \E size \in MutexSizes :
       /\ size = 0 => gMemMutex.count < MaxMutexDepth
       /\ sheap_malloc(size, 0)
  \/ \E num \in {0, 1} :
       /\ num = 0 => gMemMutex.count < MaxMutexDepth
       /\ sheap_calloc(num, 3, 0)
  \/ \E p \in {NULL} \cup DOMAIN live \cup StalePointers : sheap_free(p, 0)
  \/ \E p \in DOMAIN live : caller_corrupt_boundary(p, 0, 165)
  \/ \E t \in Tasks : context_switch(t)

SpecMutex == InitMutex /\ [][NextMutex]_vars

(***************************************************************************)
(* The build with the CMSIS-RTOS2 mutex and the extended header: two tasks *)
(* allocate, free and ask for the id of pointers, valid ones and others.   *)
(***************************************************************************)
InitQuery ==
  /\ ext = TRUE
  /\ callocValue = SHEAPERD_SHEAP_OVERWRITE_VALUE
  /\ mem = [i \in 1..IdsArenaSize |-> 0]
  /\ gStartBlock = NULL
  /\ gHeap = ZeroHeap
  /\ gHeaderIds = [i \in 0..(SHEAP_HEADER_ID_LOG_SIZE - 1) |-> 0]
  /\ gCurrentIDIndex = 0
  /\ allocBusy = FALSE
  /\ freeBusy = FALSE
  /\ live = << >>
  /\ stale = << >>
  /\ last = NoCall
  /\ rtos = TRUE
  /\ gMemMutex = NoMutex
  /\ running = 1
  /\ recorded = << >>
  /\ interrupted = NoInterrupt
  /\ InitGuard

\* null, a pointer below the arena, and the pointers the caller holds or
\* has released
QueryPointers == {NULL, BufferBase - 4} \cup DOMAIN live \cup StalePointers

NextQuery ==
  \/ sheap_init(BufferBase, IdsArenaSize)
  \/ sheap_malloc(3, 0)
  \/ \E p \in DOMAIN live \cup StalePointers : sheap_free(p, 0)
  \/ \E p \in DOMAIN live : caller_corrupt_boundary(p, 0, 165)
  \/ \E p \in QueryPointers :
       /\ gMemMutex.count < MaxMutexDepth
       /\ sheap_getAllocationID(p)
  \/ \E t \in Tasks : context_switch(t)

SpecQuery == InitQuery /\ [][NextQuery]_vars

(***************************************************************************)
(* The build without an RTOS: a call of the main program is interrupted    *)
(* behind the test of its busy flag or behind the store to it, and the     *)
(* interrupt handler calls into the heap; the handler's calls run to their *)
(* end before the interrupted call goes on.                                *)
(***************************************************************************)
outer_enter(op, args) ==
  /\ ~rtos
  /\ interrupted.op = "none"
  /\ interrupted' = [op |-> op, pc |-> "tested", args |-> args,
                     busy |-> IF op = "free" THEN freeBusy ELSE allocBusy]
  /\ UNCHANGED << ext, callocValue, mem, gStartBlock, gHeap, gHeaderIds,
                  gCurrentIDIndex, allocBusy, freeBusy, live, stale, last, rtos,
                  gMemMutex, running, recorded, guardVars >>

\* allocBusy = true, freeBusy = true
outer_store ==
  /\ interrupted.op # "none"
  /\ interrupted.pc = "tested"
  /\ ~interrupted.busy
  /\ interrupted' = [interrupted EXCEPT !.pc = "flagged"]
  /\ allocBusy' = IF interrupted.op = "free" THEN allocBusy ELSE TRUE
  /\ freeBusy' = IF interrupted.op = "free" THEN TRUE ELSE freeBusy
  /\ UNCHANGED << ext, callocValue, mem, gStartBlock, gHeap, gHeaderIds,
                  gCurrentIDIndex, live, stale, last, rtos, gMemMutex, running,
                  recorded, guardVars >>

outer_resume ==
  /\ interrupted.op # "none"
  /\ interrupted.pc = "flagged" \/ interrupted.busy
  /\ interrupted' = NoInterrupt
  /\ CASE interrupted.op = "malloc" ->
            sheap_alloc_from(interrupted.busy, "malloc", interrupted.args[1],
                             interrupted.args[2], FALSE)
       [] interrupted.op = "calloc" ->
            sheap_alloc_from(interrupted.busy, "calloc",
                             interrupted.args[1] * interrupted.args[2],
                             interrupted.args[3], TRUE)
       [] interrupted.op = "free" ->
            sheap_free_from(interrupted.busy, interrupted.args[1],
                            interrupted.args[2])

ReentryArenaSize == 4 * 8 + 2 * SHEAPERD_SHEAP_MINIMUM_MALLOC_SIZE

InitReentry ==
  /\ ext = FALSE
  /\ callocValue = SHEAPERD_SHEAP_OVERWRITE_VALUE
  /\ mem = [i \in 1..ReentryArenaSize |-> 0]
  /\ gStartBlock = NULL
  /\ gHeap = ZeroHeap
  /\ gHeaderIds = [i \in 0..(SHEAP_HEADER_ID_LOG_SIZE - 1) |-> 0]
  /\ gCurrentIDIndex = 0
  /\ allocBusy = FALSE
  /\ freeBusy = FALSE
  /\ live = << >>
  /\ stale = << >>
  /\ last = NoCall
  /\ rtos = FALSE
  /\ gMemMutex = NoMutex
  /\ running = 1
  /\ recorded = << >>
  /\ interrupted = NoInterrupt
  /\ InitGuard

ReentryPointers == DOMAIN live \cup StalePointers

NextReentry ==
  \/ interrupted.op = "none" /\ sheap_init(BufferBase, ReentryArenaSize)
  \/ \E size \in {0, 3} : sheap_malloc(size, 0)
  \/ sheap_calloc(1, 3, 0)
  \/ \E p \in ReentryPointers : sheap_free(p, 0)
  \/ \E size \in {0, 3} : outer_enter("malloc", << size, 0 >>)
  \/ outer_enter("calloc", << 1, 3, 0 >>)
  \/ \E p \in ReentryPointers : outer_enter("free", << p, 0 >>)
  \/ outer_store
  \/ outer_resume

SpecReentry == InitReentry /\ [][NextReentry]_vars

(***************************************************************************)
(* memory_protection.c: the driver of the ARMv7-M memory protection unit.  *)
(* A write to RBAR with VALID set selects the region of its REGION field   *)
(* and sets its base address; a write to RASR sets the attributes of the   *)
(* region that RNR selects.                                                *)
(***************************************************************************)
MPU_REGION_ALL_ACCESS_DENIED == 0
MPU_REGION_PRIVELEGED_RW == 1
MPU_REGION_ALL_ACCESS_ALLOWED == 3
REGIONSIZE_32B == 4
REGIONSIZE_4GB == 31
MPU_REGION_ADDRESS_32BIT_ALIGNMENT_MASK == 31
MEMORY_PROTECTION_ALIGNMENT_TABLE_OFFSET == 4
STACKGUARD_DEFAULT_TASK_SWITCH_OUT_PERMISSION == MPU_REGION_ALL_ACCESS_DENIED

\* (1 << MPU_CTRL_PRIVDEFENA_Pos) | 0x1
MPU_CTRL_ON == 5

gAlignmentTable ==
  << 31, 63, 127, 255,
     511, 1023, 2047, 4095,
     8191, 16383, 32767, 65535,
     131071, 262143, 524287, 1048575,
     2097151, 4194303, 8388607, 16777215,
     33554431, 67108863, 134217727, 268435455,
     536870911, 1073741823, 2147483647, -1 >>

\* a & b on uint32_t operands: the low 31 bits, then the top bit
Low31(x) == IF x < 0 THEN (x + 2147483647) + 1 ELSE x

RECURSIVE AndBits(_, _, _)
AndBits(a, b, n) ==
  IF n = 0 THEN 0
  ELSE (a % 2) * (b % 2) + 2 * AndBits(a \div 2, b \div 2, n - 1)

BitAnd(a, b) ==
  IF a < 0 /\ b < 0
  THEN (AndBits(Low31(a), Low31(b), 31) - 2147483647) - 1
  ELSE AndBits(Low31(a), Low31(b), 31)

memory_protection_getNumberOfMPURegions == HardwareRegions

memory_protection_isMPUEnabled(mpu) == mpu.CTRL % 2 = 1

memory_protection_enableMPU(mpu) ==
  IF memory_protection_getNumberOfMPURegions = 0 THEN mpu
  ELSE [mpu EXCEPT !.CTRL = MPU_CTRL_ON]

memory_protection_disableMPU(mpu) ==
  IF memory_protection_getNumberOfMPURegions = 0 THEN mpu
  ELSE [mpu EXCEPT !.CTRL = 0]

isAddressValidTo16(address) == BitAnd(address, 15) = 0

isAddressValid(address) ==
  BitAnd(address, MPU_REGION_ADDRESS_32BIT_ALIGNMENT_MASK) = 0

\* the index of gAlignmentTable that isAlignmentValid reads
AlignmentIndex(region) == region.size - MEMORY_PROTECTION_ALIGNMENT_TABLE_OFFSET

\* isAlignmentValid: for a size code below 0x04 or above 0x1F the mask is
\* read outside gAlignmentTable, and the result is whatever lies there
isAlignmentValid(region) ==
  IF AlignmentIndex(region) \in 0..27
  THEN {BitAnd(region.address, gAlignmentTable[AlignmentIndex(region) + 1]) = 0}
  ELSE IF region.address = 0 THEN {TRUE} ELSE BOOLEAN

\* MPU->RBAR = region->address | (1 << MPU_RBAR_VALID_Pos) | region->number
WriteRBAR(mpu, region) ==
  [mpu EXCEPT !.RNR = region.number,
              !.region[region.number].address = region.address]

\* MPU->RASR = ap | xn | tex_scb | size | enabled, for the region RNR selects
WriteRASR(mpu, region) ==
  [mpu EXCEPT !.region[mpu.RNR].ap = region.ap,
              !.region[mpu.RNR].xn = region.xn,
              !.region[mpu.RNR].size = region.size,
              !.region[mpu.RNR].enabled = region.enabled]

\* memory_protection_configureRegion, aligned being what isAlignmentValid
\* returns: the registers afterwards and the error returned
memory_protection_configureRegion(mpu, region, aligned) ==
  IF memory_protection_getNumberOfMPURegions = 0
  THEN [mpu |-> mpu, error |-> "NO_MPU_AVAILABLE"]
  ELSE IF ~isAddressValid(region.address)
  THEN [mpu |-> memory_protection_disableMPU(mpu),
        error |-> "INVALID_REGION_ADDRESS"]
  ELSE IF ~aligned
  THEN [mpu |-> memory_protection_disableMPU(mpu),
        error |-> "INVALID_REGION_ADDRESS_ALIGNMENT"]
  ELSE [mpu |-> memory_protection_enableMPU(
                  WriteRASR(WriteRBAR(memory_protection_disableMPU(mpu), region),
                            region)),
        error |-> "NO_ERROR"]

(***************************************************************************)
(* stackguard.c                                                            *)
(***************************************************************************)
heapVars == << ext, callocValue, mem, gStartBlock, gHeap, gHeaderIds,
               gCurrentIDIndex, allocBusy, freeBusy, live, stale, gMemMutex,
               recorded >>

\* fillRegionDefaults sets enabled; cachable, bufferable, shareable, tex and
\* srd are the same in every region
createDefaultRegion(number) ==
  [address |-> 0, enabled |-> TRUE, number |-> number, size |-> REGIONSIZE_32B,
   ap |-> MPU_REGION_ALL_ACCESS_DENIED, xn |-> FALSE]

stackguard_acquireMutex ==
  \/ ~rtos
  \/ gStackMutex.created /\ (gStackMutex.count = 0 \/ gStackMutex.owner = running)

GuardReturns(op, taskId, status) ==
  last' = [NoCall EXCEPT !.op = op, !.arg = taskId, !.status = status]

stackguard_init ==
  /\ MPU' = memory_protection_disableMPU(MPU)
  /\ gTasksRegions' = [i \in 0..(STACKGUARD_NUMBER_OF_MPU_REGIONS - 1) |->
                         [taskId |-> -1, mpuRegion |-> createDefaultRegion(i)]]
  /\ gNumberOfRegions' = memory_protection_getNumberOfMPURegions
  /\ gStackMutex' = IF rtos THEN [created |-> TRUE, owner |-> 0, count |-> 0]
                    ELSE gStackMutex
  /\ GuardReturns("init", 0,
                  IF memory_protection_getNumberOfMPURegions = 0
                  THEN "STACKGUARD_NO_MPU_AVAILABLE" ELSE "STACKGUARD_NO_ERROR")
  /\ UNCHANGED << heapVars, rtos, running, interrupted, gNextUnusedRegion >>

\* while (gNextUnusedRegion < gNumberOfRegions && taskId != -1) gNextUnusedRegion++
RECURSIVE NextUnusedFrom(_, _)
NextUnusedFrom(table, n) ==
  IF n < gNumberOfRegions /\ table[n].taskId # -1
  THEN NextUnusedFrom(table, n + 1)
  ELSE n

StackguardError(error) ==
  CASE error = "INVALID_REGION_ADDRESS" -> "STACKGUARD_INVALID_MPU_ADDRESS"
    [] error = "INVALID_REGION_ADDRESS_ALIGNMENT" -> "STACKGUARD_INVALID_STACK_ALIGNMENT"
    [] error = "INVALID_REGION_NUMBER" -> "STACKGUARD_INVALID_REGION_NUMBER"
    [] OTHER -> "STACKGUARD_NO_ERROR"

\* the region that stackguard_addTask hands to the driver
TaskRegion(sp, stackSize, initialAP, xn) ==
  [address |-> sp, enabled |-> TRUE, number |-> gNextUnusedRegion,
   size |-> stackSize, ap |-> initialAP, xn |-> xn]

\* stackguard_addTask behind the mutex, r being what the driver returns
TaskAdded(op, taskId, region, r) ==
  /\ MPU' = r.mpu
  /\ gStackMutex' = util_releaseMutex(util_acquireMutex(gStackMutex))
  /\ GuardReturns(op, taskId, StackguardError(r.error))
  /\ IF StackguardError(r.error) # "STACKGUARD_NO_ERROR"
     THEN UNCHANGED << gTasksRegions, gNextUnusedRegion >>
     ELSE /\ gTasksRegions' =
               [gTasksRegions EXCEPT ![gNextUnusedRegion] =
                  [taskId |-> taskId, mpuRegion |-> region]]
          /\ gNextUnusedRegion' =
               NextUnusedFrom([gTasksRegions EXCEPT ![gNextUnusedRegion] =
                                 [taskId |-> taskId, mpuRegion |-> region]],
                              gNextUnusedRegion)

\* RBAR.REGION as the MPU decodes it: a number the MPU does not implement is
\* UNPREDICTABLE there, and the stores reach no region or the region that the
\* number names modulo the regions implemented
SelectedRegions(number) ==
  IF memory_protection_getNumberOfMPURegions = 0
     \/ number < memory_protection_getNumberOfMPURegions
  THEN {number}
  ELSE {number, number % memory_protection_getNumberOfMPURegions}

\* lines 133-164 of stackguard_addTask, behind the test of gNextUnusedRegion
stackguard_addTask_checked(op, taskId, sp, stackSize, initialAP, xn) ==
  IF ~stackguard_acquireMutex
  THEN /\ GuardReturns(op, taskId, "STACKGUARD_MUTEX_ACQUIRE_FAILED")
       /\ UNCHANGED << gTasksRegions, gNextUnusedRegion, MPU, gStackMutex >>
  ELSE \E aligned \in isAlignmentValid(TaskRegion(sp, stackSize, initialAP, xn)),
          selected \in SelectedRegions(gNextUnusedRegion) :
         TaskAdded(op, taskId, TaskRegion(sp, stackSize, initialAP, xn),
                   memory_protection_configureRegion(
                     MPU, [TaskRegion(sp, stackSize, initialAP, xn)
                             EXCEPT !.number = selected], aligned))

stackguard_addTask_impl(op, taskId, sp, stackSize, initialAP, xn) ==
  /\ UNCHANGED << heapVars, rtos, running, gNumberOfRegions >>
  /\ IF gNextUnusedRegion >= gNumberOfRegions
     THEN /\ GuardReturns(op, taskId, "STACKGUARD_NO_MPU_REGION_LEFT")
          /\ UNCHANGED << gTasksRegions, gNextUnusedRegion, MPU, gStackMutex >>
     ELSE stackguard_addTask_checked(op, taskId, sp, stackSize, initialAP, xn)

stackguard_addTask(taskId, sp, stackSize, initialAP, xn) ==
  /\ stackguard_addTask_impl("addTask", taskId, sp, stackSize, initialAP, xn)
  /\ UNCHANGED interrupted

isPowerOfTwo(value) == value # 0 /\ BitAnd(value, value - 1) = 0

\* while (size >>= 1) exp++, for a size below 2^31
RECURSIVE Log2(_)
Log2(size) == IF size \div 2 = 0 THEN 0 ELSE 1 + Log2(size \div 2)

stackguard_addTaskByteSize(taskId, sp, stackSize, initialAP, xn) ==
  IF ~isPowerOfTwo(stackSize)
  THEN /\ GuardReturns("addTaskByteSize", taskId, "STACKGUARD_MPU_INVALID_REGION_SIZE")
       /\ UNCHANGED << heapVars, rtos, running, interrupted, guardVars >>
  ELSE /\ stackguard_addTask_impl("addTaskByteSize", taskId, sp,
                                  Log2(stackSize) - 1, initialAP, xn)
       /\ UNCHANGED interrupted

\* removeRegion: the index of the first slot that carries taskId, or
\* gNumberOfRegions
RECURSIVE FindRegion(_, _)
FindRegion(taskId, i) ==
  IF i < gNumberOfRegions /\ gTasksRegions[i].taskId # taskId
  THEN FindRegion(taskId, i + 1)
  ELSE i

removeRegion(taskId) ==
  IF FindRegion(taskId, 0) < gNumberOfRegions
  THEN /\ gTasksRegions' =
            [gTasksRegions EXCEPT ![FindRegion(taskId, 0)] =
               [taskId |-> -1, mpuRegion |-> createDefaultRegion(0)]]
       /\ gNextUnusedRegion' = IF FindRegion(taskId, 0) < gNextUnusedRegion
                               THEN FindRegion(taskId, 0)
                               ELSE gNextUnusedRegion
       /\ GuardReturns("removeTask", taskId, "STACKGUARD_NO_ERROR")
  ELSE /\ UNCHANGED << gTasksRegions, gNextUnusedRegion >>
       /\ GuardReturns("removeTask", taskId, "STACKGUARD_TASK_NOT_FOUND")

stackguard_removeTask_impl(taskId) ==
  /\ UNCHANGED << heapVars, rtos, running, gNumberOfRegions, MPU >>
  /\ IF ~stackguard_acquireMutex
     THEN /\ GuardReturns("removeTask", taskId, "STACKGUARD_MUTEX_ACQUIRE_FAILED")
          /\ UNCHANGED << gTasksRegions, gNextUnusedRegion, gStackMutex >>
     ELSE /\ removeRegion(taskId)
          /\ gStackMutex' = util_releaseMutex(util_acquireMutex(gStackMutex))

stackguard_removeTask(taskId) ==
  stackguard_removeTask_impl(taskId) /\ UNCHANGED interrupted

\* one round of the loop of stackguard_taskSwitchIn: slot i is configured if
\* it is occupied; outside is the result of isAlignmentValid for a size code
\* outside the table
SwitchedRegion(slot, i, taskId) ==
  [slot.mpuRegion EXCEPT
     !.ap = IF slot.taskId = taskId THEN MPU_REGION_ALL_ACCESS_ALLOWED
            ELSE STACKGUARD_DEFAULT_TASK_SWITCH_OUT_PERMISSION,
     !.number = i]

SwitchAligned(region, outside) ==
  IF isAlignmentValid(region) = BOOLEAN THEN outside
  ELSE TRUE \in isAlignmentValid(region)

SwitchRound(mpu, slot, i, taskId, outside) ==
  IF slot.taskId # -1
  THEN memory_protection_configureRegion(
         mpu, SwitchedRegion(slot, i, taskId),
         SwitchAligned(SwitchedRegion(slot, i, taskId), outside)).mpu
  ELSE mpu

\* the loop of stackguard_taskSwitchIn over the slots of table, from slot i
RECURSIVE SwitchFrom(_, _, _, _, _)
SwitchFrom(table, mpu, i, taskId, outside) ==
  IF i < gNumberOfRegions
  THEN SwitchFrom(table, SwitchRound(mpu, table[i], i, taskId, outside),
                  i + 1, taskId, outside)
  ELSE mpu

SwitchLoop(mpu, i, taskId, outside) ==
  SwitchFrom(gTasksRegions, mpu, i, taskId, outside)

stackguard_taskSwitchIn_impl(taskId, enableMPU) ==
  /\ \E outside \in BOOLEAN :
       MPU' = IF enableMPU
              THEN memory_protection_enableMPU(
                     SwitchLoop(memory_protection_disableMPU(MPU), 0, taskId, outside))
              ELSE SwitchLoop(memory_protection_disableMPU(MPU), 0, taskId, outside)
  /\ last' = [NoCall EXCEPT !.op = "taskSwitchIn", !.arg = taskId,
                            !.enableMPU = enableMPU,
                            !.reports = IF memory_protection_isMPUEnabled(MPU)
                                        THEN << >>
                                        ELSE << "STACKGUARD_MPU_NOT_ENABLED" >>]
  /\ UNCHANGED << heapVars, rtos, running, gNumberOfRegions,
                  gNextUnusedRegion, gTasksRegions, gStackMutex >>

stackguard_taskSwitchIn(taskId, enableMPU) ==
  stackguard_taskSwitchIn_impl(taskId, enableMPU) /\ UNCHANGED interrupted

stackguard_guard ==
  /\ MPU' = memory_protection_enableMPU(MPU)
  /\ GuardReturns("guard", 0,
                  IF memory_protection_getNumberOfMPURegions = 0
                  THEN "STACKGUARD_NO_MPU_AVAILABLE" ELSE "STACKGUARD_NO_ERROR")
  /\ UNCHANGED << heapVars, rtos, running, interrupted, gNumberOfRegions,
                  gNextUnusedRegion, gTasksRegions, gStackMutex >>

(***************************************************************************)
(* The scheduler of an RTOS registers the stacks of two tasks, removes     *)
(* them and switches between them.  The stack bases are one aligned to     *)
(* every size used, one aligned to 32 bytes only and one not aligned to 32 *)
(* bytes; the sizes are 32 and 64 bytes.                                   *)
(***************************************************************************)
InitStackguard ==
  /\ ext = FALSE
  /\ callocValue = SHEAPERD_SHEAP_OVERWRITE_VALUE
  /\ mem = << >>
  /\ gStartBlock = NULL
  /\ gHeap = ZeroHeap
  /\ gHeaderIds = [i \in 0..(SHEAP_HEADER_ID_LOG_SIZE - 1) |-> 0]
  /\ gCurrentIDIndex = 0
  /\ allocBusy = FALSE
  /\ freeBusy = FALSE
  /\ live = << >>
  /\ stale = << >>
  /\ last = NoCall
  /\ rtos = TRUE
  /\ gMemMutex = NoMutex
  /\ running = 1
  /\ recorded = << >>
  /\ interrupted = NoInterrupt
  /\ InitGuard

TaskIds == {7, 9}
StackBase == 536870912
StackBases == {StackBase, StackBase + 32, StackBase + 16}
StackSizes == {REGIONSIZE_32B, REGIONSIZE_32B + 1}
StackByteSizes == {32, 48}

NextStackguard ==
  \/ stackguard_init
  \/ \E taskId \in TaskIds, sp \in StackBases, stackSize \in StackSizes :
       stackguard_addTask(taskId, sp, stackSize, MPU_REGION_PRIVELEGED_RW, FALSE)
  \/ \E sp \in {StackBase, StackBase + 16}, stackSize \in StackByteSizes :
       stackguard_addTaskByteSize(7, sp, stackSize, MPU_REGION_PRIVELEGED_RW, FALSE)
  \/ \E taskId \in TaskIds \cup {-1} : stackguard_removeTask(taskId)
  \/ \E taskId \in TaskIds, enableMPU \in BOOLEAN :
       stackguard_taskSwitchIn(taskId, enableMPU)
  \/ stackguard_guard

SpecStackguard == InitStackguard /\ [][NextStackguard]_vars

(***************************************************************************)
(* The block list, read from the arena bytes by walking from gStartBlock.  *)
(***************************************************************************)
Initialized == gHeap.heapMin # NULL

\* a header and a boundary tag fit between b and the end of the arena
HoldsBlock(b) == b >= gHeap.heapMin /\ b + 2 * SizeofBlockInfo <= gHeap.heapMax

RECURSIVE Walk(_)
Walk(b) ==
  IF HoldsBlock(b) THEN << b >> \o Walk(GET_NEXT_MEMORY_BLOCK(mem, b)) ELSE << >>

Blocks == IF Initialized THEN Walk(gStartBlock) ELSE << >>

BlockSet == {Blocks[i] : i \in DOMAIN Blocks}

RECURSIVE SumOver(_, _)
SumOver(f, S) ==
  IF S = {} THEN 0
  ELSE LET x == CHOOSE y \in S : TRUE IN f[x] + SumOver(f, S \ {x})

\* header + payload + boundary tag of every block walked
WalkedBytes ==
  SumOver([b \in BlockSet |-> SizeofBlockInfo + sizeOf(mem, b) + SizeofBlockInfo], BlockSet)

(***************************************************************************)
(* C1: after sheap_init and any calls, the blocks walked from the arena    *)
(* start lie head to tail: the first starts at heapMin, the boundary tag   *)
(* in front of every later block leads back to the block walked before it, *)
(* the last block ends exactly at heapMax, and header + payload + boundary *)
(* over all blocks add up to the arena size.                               *)
(***************************************************************************)
C1_HeapWalkable ==
  Initialized =>
    /\ Blocks # << >>
    /\ Blocks[1] = gHeap.heapMin
    /\ \A i \in 2..Len(Blocks) : GET_PREV_MEMORY_BLOCK(mem, Blocks[i]) = Blocks[i - 1]
    /\ GET_NEXT_MEMORY_BLOCK(mem, Blocks[Len(Blocks)]) = gHeap.heapMax
    /\ WalkedBytes = gHeap.size

\* three blocks stand after a release that merged with no neighbour
C1_Witness ==
  /\ Len(Blocks) = 3
  /\ last.op = "free" /\ last.cls = "live" /\ last.reports = << >>
  /\ ~last.mergedNext /\ ~last.mergedPrev

(***************************************************************************)
(* C2: as long as the caller stores only into the bytes it asked for,      *)
(* every block has header.crc == boundary.crc == CRC16 of the header       *)
(* fields in front of crc, and the allocated flag, the size, the           *)
(* alignment offset and the id of the boundary tag equal the header's.     *)
(***************************************************************************)
BoundaryEqualsHeader(b) ==
  LET t == GET_BOUNDARY_TAG(mem, b) IN
  /\ isAllocated(mem, t) = isAllocated(mem, b)
  /\ sizeOf(mem, t) = sizeOf(mem, b)
  /\ alignmentOffset(mem, t) = alignmentOffset(mem, b)
  /\ (ext => idOf(mem, t) = idOf(mem, b))

C2_CrcClosure ==
  \A b \in BlockSet :
    /\ crcOf(mem, b) = HeaderCrc(mem, b)
    /\ crcOf(mem, GET_BOUNDARY_TAG(mem, b)) = crcOf(mem, b)
    /\ BoundaryEqualsHeader(b)

\* the caller has stored into a payload it holds, and a release has merged
\* the released block with the free block behind it
C2_Witness ==
  /\ \E p \in DOMAIN live, v \in CallerBytes : Byte(mem, p) = v
  /\ last.op = "free" /\ last.cls = "live" /\ last.reports = << >>
  /\ last.mergedNext /\ ~last.mergedPrev
  /\ Len(Blocks) = 2

(***************************************************************************)
(* C3: after every successful free the blocks before and behind the        *)
(* merged block are not free, and at every point between calls no two      *)
(* physically adjacent blocks are both free.                               *)
(***************************************************************************)
C3_NoAdjacentFree ==
  \A i \in 1..(Len(Blocks) - 1) :
    isAllocated(mem, Blocks[i]) \/ isAllocated(mem, Blocks[i + 1])

\* a release has merged with the free block in front of it and stands in
\* front of an allocated last block
C3_Witness ==
  /\ last.op = "free" /\ last.cls = "live" /\ last.reports = << >>
  /\ last.mergedPrev /\ ~last.mergedNext
  /\ Len(Blocks) = 2
  /\ ~isAllocated(mem, Blocks[1]) /\ isAllocated(mem, Blocks[2])

(***************************************************************************)
(* C4: the payload of every pointer a successful malloc or calloc returned *)
(* and the caller still holds lies within [heapMin + sizeof(header),       *)
(* heapMax - sizeof(header)), and the payloads of two held pointers are    *)
(* disjoint from each other and from every header and boundary tag.        *)
(***************************************************************************)
PayloadOf(p) == p .. (p + sizeOf(mem, p - SizeofBlockInfo) - 1)

TagBytes ==
  UNION {(b .. (b + SizeofBlockInfo - 1))
           \cup (GET_BOUNDARY_TAG(mem, b) .. (GET_BOUNDARY_TAG(mem, b) + SizeofBlockInfo - 1))
         : b \in BlockSet}

C4_PayloadsApart ==
  \A p \in DOMAIN live :
    /\ p >= gHeap.heapMin + SizeofBlockInfo
    /\ p + sizeOf(mem, p - SizeofBlockInfo) <= gHeap.heapMax - SizeofBlockInfo
    /\ PayloadOf(p) \cap TagBytes = {}
    /\ \A q \in DOMAIN live \ {p} : PayloadOf(p) \cap PayloadOf(q) = {}

\* the caller holds three allocations, the last one just returned
C4_Witness ==
  /\ Cardinality(DOMAIN live) = 3
  /\ last.op \in {"malloc", "calloc"} /\ last.ret \in DOMAIN live

(***************************************************************************)
(* C5: the statistics agree with the block list: currentAllocations is the *)
(* number of allocated blocks, userDataAllocated the sum of size -         *)
(* alignmentOffset over them, which is the sum of the sizes the callers    *)
(* asked for, userDataAllocatedAlligned the sum of their payload sizes,    *)
(* totalBytesAllocated the sum of payload plus two headers; no counter     *)
(* goes below zero.                                                        *)
(***************************************************************************)
AllocatedBlocks == {b \in BlockSet : isAllocated(mem, b)}

C5_StatisticsAgree ==
  Initialized =>
    /\ gHeap.currentAllocations = Cardinality(AllocatedBlocks)
    /\ gHeap.userDataAllocated
         = SumOver([b \in AllocatedBlocks |-> sizeOf(mem, b) - alignmentOffset(mem, b)],
                   AllocatedBlocks)
    /\ gHeap.userDataAllocated = SumOver([p \in DOMAIN live |-> live[p].size], DOMAIN live)
    /\ gHeap.userDataAllocatedAlligned
         = SumOver([b \in AllocatedBlocks |-> sizeOf(mem, b)], AllocatedBlocks)
    /\ gHeap.totalBytesAllocated
         = SumOver([b \in AllocatedBlocks |-> sizeOf(mem, b) + 2 * SizeofBlockInfo],
                   AllocatedBlocks)
    /\ gHeap.currentAllocations >= 0 /\ gHeap.userDataAllocated >= 0
    /\ gHeap.userDataAllocatedAlligned >= 0 /\ gHeap.totalBytesAllocated >= 0

\* a release has left two allocated blocks, one of them with padding
C5_Witness ==
  /\ last.op = "free" /\ last.cls = "live" /\ last.reports = << >>
  /\ gHeap.currentAllocations = 2
  /\ gHeap.userDataAllocated < gHeap.userDataAllocatedAlligned

(***************************************************************************)
(* C6: the payload size of every block is a multiple of 4 and at least 4,  *)
(* for every arena size sheap_init accepts and after every sequence of     *)
(* calls.                                                                  *)
(***************************************************************************)
C6_PayloadAligned ==
  \A b \in BlockSet :
    /\ sizeOf(mem, b) % SHEAPERD_SHEAP_MINIMUM_MALLOC_SIZE = 0
    /\ sizeOf(mem, b) >= SHEAPERD_SHEAP_MINIMUM_MALLOC_SIZE

\* sheap_init has just laid out an arena whose size is not a multiple of 4
C6_Witness ==
  /\ Initialized /\ last.op = "init"
  /\ gHeap.size % SHEAPERD_SHEAP_MINIMUM_MALLOC_SIZE # 0
  /\ Len(Blocks) = 1

(***************************************************************************)
(* C7 as the specification states it: every allocated block has an         *)
(* alignment offset below 4 and the size its caller asked for is size -    *)
(* alignmentOffset; every free block has alignment offset 0.               *)
(***************************************************************************)
RequestedSizeKept(b) ==
  /\ b + SizeofBlockInfo \in DOMAIN live
  /\ live[b + SizeofBlockInfo].size = sizeOf(mem, b) - alignmentOffset(mem, b)

C7_AlignOffsetBelowFour ==
  \A b \in BlockSet :
    IF isAllocated(mem, b)
    THEN alignmentOffset(mem, b) < SHEAPERD_SHEAP_MINIMUM_MALLOC_SIZE /\ RequestedSizeKept(b)
    ELSE alignmentOffset(mem, b) = 0

(***************************************************************************)
(* C7 as the code keeps it: for every allocated block the size its caller  *)
(* asked for is size - alignmentOffset; the alignment offset is below 4    *)
(* when the allocation split its candidate, and when it took the whole     *)
(* candidate it is the candidate's size minus the requested size, which is *)
(* at most 4 * sizeof(header) + 6; every free block has alignment offset   *)
(* 0.                                                                      *)
(***************************************************************************)
\* the largest alignment offset: 3 bytes of rounding and a residue below
\* GET_BLOCK_OVERHEAD_SIZE(0) + SHEAPERD_SHEAP_MINIMUM_MALLOC_SIZE + 2 headers
MaxAlignmentOffset ==
  (SHEAPERD_SHEAP_MINIMUM_MALLOC_SIZE - 1)
    + (4 * SizeofBlockInfo + SHEAPERD_SHEAP_MINIMUM_MALLOC_SIZE - 1)

C7_AlignOffsetBounded ==
  /\ \A b \in BlockSet :
       IF isAllocated(mem, b)
       THEN alignmentOffset(mem, b) <= MaxAlignmentOffset /\ RequestedSizeKept(b)
       ELSE alignmentOffset(mem, b) = 0
  /\ (last.op \in {"malloc", "calloc"} /\ last.ret # NULL /\ last.split)
       => alignmentOffset(mem, last.ret - SizeofBlockInfo)
            < SHEAPERD_SHEAP_MINIMUM_MALLOC_SIZE

\* an allocation has taken its whole candidate and the block records an
\* alignment offset of 4 or more
C7_Witness ==
  /\ last.op \in {"malloc", "calloc"} /\ last.ret # NULL /\ ~last.split
  /\ alignmentOffset(mem, last.ret - SizeofBlockInfo) >= SHEAPERD_SHEAP_MINIMUM_MALLOC_SIZE
  /\ RequestedSizeKept(last.ret - SizeofBlockInfo)

(***************************************************************************)
(* C8: sheap_free of a pointer sheap_malloc returned, the caller having    *)
(* stored only within the requested bytes, reports nothing; sheap_free of  *)
(* the same pointer again, before an allocation returns it again, reports  *)
(* SHEAP_ERROR_DOUBLE_FREE and changes neither the arena nor the           *)
(* statistics, whichever neighbours the first release merged with.         *)
(***************************************************************************)
C8_FreeOnce ==
  [][\A p \in DOMAIN live \cup StalePointers, id \in CallerIds :
       sheap_free(p, id) =>
         IF p \in DOMAIN live
         THEN live[p].zeroed \/ last'.reports = << >>
         ELSE stale[1].zeroed
                \/ (/\ last'.reports = << "SHEAP_ERROR_DOUBLE_FREE" >>
                    /\ mem' = mem
                    /\ gHeap' = gHeap)]_vars

\* a pointer from sheap_malloc whose release merged with the previous block
\* has been passed to sheap_free again
C8_Witness ==
  /\ last.op = "free" /\ last.cls = "stale"
  /\ stale[1].ptr = last.arg /\ ~stale[1].zeroed
  /\ stale[1].mergedPrev

(***************************************************************************)
(* C9: sheap_free of a pointer sheap_calloc returned, the caller having    *)
(* stored only within the first num * size bytes, releases the block and   *)
(* does not report SHEAP_ERROR_OUT_OF_BOUND_WRITE, for every value of      *)
(* SHEAPERD_SHEAP_CALLOC_VALUE and also when num * size is not a multiple  *)
(* of 4.                                                                   *)
(***************************************************************************)
FreedZeroed ==
  IF last.arg \in DOMAIN live
  THEN live[last.arg].zeroed
  ELSE stale # << >> /\ stale[1].ptr = last.arg /\ stale[1].zeroed

C9_CallocThenFree ==
  (last.op = "free" /\ last.cls = "live" /\ FreedZeroed)
    => last.reports = << >> /\ last.arg \notin DOMAIN live

\* sheap_free has been called with a pointer from sheap_calloc
C9_Witness ==
  /\ last.op = "free" /\ last.cls = "live" /\ FreedZeroed
  /\ callocValue # SHEAPERD_SHEAP_OVERWRITE_VALUE

(***************************************************************************)
(* C10: once sheap_free has been called with every pointer the caller      *)
(* holds, the heap is one free block at the start of the arena with        *)
(* payload size gHeap.size - 2 * sizeof(header), and the four statistics   *)
(* counters are zero.                                                      *)
(***************************************************************************)
C10_AllFreedIsFresh ==
  (last.op = "free" /\ last.cls = "live" /\ DOMAIN live \subseteq {last.arg})
    => /\ Len(Blocks) = 1
       /\ Blocks[1] = gHeap.heapMin
       /\ ~isAllocated(mem, Blocks[1])
       /\ sizeOf(mem, Blocks[1]) = gHeap.size - 2 * SizeofBlockInfo
       /\ gHeap.currentAllocations = 0 /\ gHeap.totalBytesAllocated = 0
       /\ gHeap.userDataAllocatedAlligned = 0 /\ gHeap.userDataAllocated = 0

\* the same once every one of those calls has released its block
AllReleasedIsFresh ==
  (last.op = "free" /\ last.cls = "live" /\ DOMAIN live = {})
    => /\ Len(Blocks) = 1
       /\ Blocks[1] = gHeap.heapMin
       /\ ~isAllocated(mem, Blocks[1])
       /\ sizeOf(mem, Blocks[1]) = gHeap.size - 2 * SizeofBlockInfo
       /\ gHeap.currentAllocations = 0 /\ gHeap.totalBytesAllocated = 0
       /\ gHeap.userDataAllocatedAlligned = 0 /\ gHeap.userDataAllocated = 0

\* sheap_free has been called with the only pointer the caller holds and
\* has refused it
C10_Witness ==
  /\ last.op = "free" /\ last.cls = "live"
  /\ DOMAIN live = {last.arg}

(***************************************************************************)
(* C11: a successful sheap_malloc or sheap_calloc returns the payload of   *)
(* the free block of lowest address whose payload size is at least the     *)
(* requested size rounded up to a multiple of 4; on a heap that is one     *)
(* free block this is the start of the arena, so the pointer of the        *)
(* previous round comes back.                                              *)
(***************************************************************************)
\* n rounded up to a multiple of 4, as a number
RoundedUp(n) == ((n + 3) \div 4) * 4

FreeBlocksOfSize(n) == {b \in BlockSet : ~isAllocated(mem, b) /\ sizeOf(mem, b) >= n}

LowestBlock(S) == CHOOSE b \in S : \A c \in S : b <= c

\* a step of a successful allocation: the only step that adds an allocation
AllocationStep ==
  /\ gHeap'.currentAllocations = gHeap.currentAllocations + 1
  /\ last'.op \in {"malloc", "calloc"} /\ last'.ret # NULL

C11_FirstFit ==
  [][AllocationStep
       => /\ FreeBlocksOfSize(RoundedUp(last'.arg)) # {}
          /\ last'.ret = LowestBlock(FreeBlocksOfSize(RoundedUp(last'.arg)))
                           + SizeofBlockInfo]_vars

\* an allocation has passed over a free block that was too small for it
C11_Witness ==
  /\ last.op = "malloc" /\ last.ret # NULL
  /\ \E b \in BlockSet :
       /\ b < last.ret - SizeofBlockInfo
       /\ ~isAllocated(mem, b)
       /\ sizeOf(mem, b) < RoundedUp(last.arg)

(***************************************************************************)
(* C12: sheap_malloc of a size larger than the payload of every free block *)
(* returns NULL, reports SHEAP_OUT_OF_MEMORY and leaves the arena and the  *)
(* statistics as they were, the size of the arena and the sizes within 3   *)
(* of SIZE_MAX included.                                                   *)
(***************************************************************************)
FitsNowhere(size) ==
  \A b \in BlockSet : isAllocated(mem, b) \/ ULess(sizeOf(mem, b), size)

C12_OutOfMemory ==
  [][\A size \in WideSizes, id \in CallerIds :
       (Initialized /\ FitsNowhere(size) /\ sheap_malloc(size, id))
         => /\ last'.ret = NULL
            /\ last'.reports = << "SHEAP_OUT_OF_MEMORY" >>
            /\ mem' = mem
            /\ gHeap' = gHeap]_vars

\* sheap_malloc has returned a pointer for a request within 3 of SIZE_MAX
C12_Witness ==
  /\ last.op = "malloc" /\ last.ret # NULL
  /\ ULess(SIZE_MAX - 3, last.arg)

(***************************************************************************)
(* C13 as the specification states it: on a heap of 1 KiB that sheap_init  *)
(* has just laid out, with the 8-byte header, sheap_malloc(5, 1) returns   *)
(* arena + 8, the alignment offset of the block is 3, the next block's     *)
(* header is at arena + 24, that block is free and of size 992, and        *)
(* sheap_getAllocatedBytes() is 5.                                         *)
(***************************************************************************)
FreshKiB ==
  /\ ~ext /\ Initialized /\ gHeap.size = KiBArenaSize
  /\ last.op = "init" /\ last.reports = << >>

AllocatedFiveLeaving(remaining) ==
  /\ last'.ret = gHeap.heapMin + 8
  /\ isAllocated(mem', gHeap.heapMin)
  /\ alignmentOffset(mem', gHeap.heapMin) = 3
  /\ GET_NEXT_MEMORY_BLOCK(mem', gHeap.heapMin) = gHeap.heapMin + 24
  /\ ~isAllocated(mem', gHeap.heapMin + 24)
  /\ sizeOf(mem', gHeap.heapMin + 24) = remaining
  /\ sheap_getAllocatedBytes(gHeap') = 5

C13_AllocateFiveLeaves992 ==
  [][(FreshKiB /\ sheap_malloc(5, 1)) => AllocatedFiveLeaving(992)]_vars

(***************************************************************************)
(* C13 as the code behaves: the same, with the free block behind the       *)
(* allocation of size 984 = 1024 - 24 - 2 * 8, its own header and boundary *)
(* tag taken off.                                                          *)
(***************************************************************************)
C13_AllocateFiveLeaves984 ==
  [][(FreshKiB /\ sheap_malloc(5, 1)) => AllocatedFiveLeaving(984)]_vars

\* sheap_malloc(5, 1) has returned on the 1 KiB heap and is its only allocation
C13_Witness ==
  /\ ~ext /\ gHeap.size = KiBArenaSize
  /\ last.op = "malloc" /\ last.arg = 5 /\ last.ret = gHeap.heapMin + 8
  /\ gHeap.currentAllocations = 1
  /\ gCurrentIDIndex = 0

(***************************************************************************)
(* C14 as the specification states it: when the caller has stored 1 to 3   *)
(* bytes of any value behind the requested size of a block it holds, into  *)
(* the alignment padding, the next sheap_free of the pointer reports       *)
(* SHEAP_ERROR_OUT_OF_BOUND_WRITE, the block stays allocated, and arena    *)
(* and statistics are unchanged.                                           *)
(***************************************************************************)
\* sheap_free(p, id) refuses with the report kind and changes nothing
FreeRefusedWith(p, kind) ==
  /\ last'.reports = << kind >>
  /\ mem' = mem
  /\ gHeap' = gHeap
  /\ p \in DOMAIN live'
  /\ isAllocated(mem', PAYLOAD_BLOCK_TO_MEMORY_BLOCK(p))

C14_AnyOverrunDetected ==
  [][\A p \in DOMAIN live, id \in CallerIds :
       (live[p].fault \in {"padding", "padding, pattern"} /\ sheap_free(p, id))
         => FreeRefusedWith(p, "SHEAP_ERROR_OUT_OF_BOUND_WRITE")]_vars

(***************************************************************************)
(* C14 as the code behaves: the same for stores of bytes other than        *)
(* SHEAPERD_SHEAP_OVERWRITE_VALUE (0xFF); a store of that value leaves the *)
(* padding as sheap_free expects it and is not detected.                   *)
(***************************************************************************)
C14_OverrunDetected ==
  [][\A p \in DOMAIN live, id \in CallerIds :
       (live[p].fault = "padding" /\ sheap_free(p, id))
         => FreeRefusedWith(p, "SHEAP_ERROR_OUT_OF_BOUND_WRITE")]_vars

\* sheap_free has refused a block whose padding the caller stored into
C14_Witness ==
  /\ last.op = "free" /\ last.cls = "live"
  /\ last.arg \in DOMAIN live
  /\ live[last.arg].fault = "padding"
  /\ last.reports = << "SHEAP_ERROR_OUT_OF_BOUND_WRITE" >>

(***************************************************************************)
(* C15: a sheap_free that reports SHEAP_ERROR_NULL_FREE,                   *)
(* SHEAP_ERROR_FREE_PTR_NOT_IN_HEAP, SHEAP_ERROR_FREE_INVALID_HEADER,      *)
(* SHEAP_ERROR_FREE_INVALID_BOUNDARY, SHEAP_ERROR_OUT_OF_BOUND_WRITE or    *)
(* SHEAP_ERROR_DOUBLE_FREE leaves every byte of the arena (headers,        *)
(* boundary tags and payloads) and every statistics counter as it was.     *)
(***************************************************************************)
RefusalKinds ==
  {"SHEAP_ERROR_NULL_FREE", "SHEAP_ERROR_FREE_PTR_NOT_IN_HEAP",
   "SHEAP_ERROR_FREE_INVALID_HEADER", "SHEAP_ERROR_FREE_INVALID_BOUNDARY",
   "SHEAP_ERROR_OUT_OF_BOUND_WRITE", "SHEAP_ERROR_DOUBLE_FREE"}

C15_RefusedFreeChangesNothing ==
  [][\A p \in FaultFreePointers, id \in CallerIds :
       (sheap_free(p, id) /\ \E i \in DOMAIN last'.reports : last'.reports[i] \in RefusalKinds)
         => /\ mem' = mem
            /\ gHeap' = gHeap
            /\ live' = live]_vars

\* sheap_free has refused a block whose boundary tag was altered, the fifth
\* kind of refusal; the others are reached by the pointers of FaultFreePointers
C15_Witness ==
  /\ last.op = "free" /\ last.cls = "live"
  /\ last.reports = << "SHEAP_ERROR_FREE_INVALID_BOUNDARY" >>
  /\ last.arg \in DOMAIN live
  /\ isAllocated(mem, PAYLOAD_BLOCK_TO_MEMORY_BLOCK(last.arg))

(***************************************************************************)
(* C16: sheap_free of a pointer that is not NULL and cannot be the address *)
(* of a payload within [heapMin, heapMax), heapMax itself and the          *)
(* addresses less than one header behind heapMin included, reports         *)
(* SHEAP_ERROR_FREE_PTR_NOT_IN_HEAP and reads no header or boundary tag    *)
(* outside the arena.                                                      *)
(***************************************************************************)
C16_EdgePointersRefused ==
  [][\A p \in EdgePointers, id \in CallerIds :
       (Initialized /\ sheap_free(p, id))
         => /\ last'.reports = << "SHEAP_ERROR_FREE_PTR_NOT_IN_HEAP" >>
            /\ ~FreeReadsOutside(mem, gHeap, p)]_vars

\* sheap_free has taken heapMax for a payload and read a boundary tag behind
\* the arena
C16_Witness ==
  /\ last.op = "free" /\ last.cls = "outside"
  /\ last.reports = << "SHEAP_ERROR_FREE_INVALID_BOUNDARY" >>

(***************************************************************************)
(* C17: when a byte of the boundary tag of a block the caller holds has    *)
(* been altered (flag, size, alignment offset, id or the stored crc) and   *)
(* the header is intact, sheap_free of the block reports                   *)
(* SHEAP_ERROR_FREE_INVALID_BOUNDARY and changes nothing.                  *)
(***************************************************************************)
C17_AlteredBoundaryRefused ==
  [][\A p \in DOMAIN live, id \in CallerIds :
       (live[p].fault \in {"boundary", "boundary crc"} /\ sheap_free(p, id))
         => FreeRefusedWith(p, "SHEAP_ERROR_FREE_INVALID_BOUNDARY")]_vars

\* the same for the bytes of the boundary tag in front of its stored crc
AlteredBoundaryDataRefused ==
  [][\A p \in DOMAIN live, id \in CallerIds :
       (live[p].fault = "boundary" /\ sheap_free(p, id))
         => FreeRefusedWith(p, "SHEAP_ERROR_FREE_INVALID_BOUNDARY")]_vars

\* sheap_free has released a block whose boundary tag had an altered crc
C17_Witness ==
  /\ last.op = "free" /\ last.cls = "live" /\ last.reports = << >>
  /\ stale # << >> /\ stale[1].ptr = last.arg
  /\ stale[1].fault = "boundary crc"

(***************************************************************************)
(* C18: after k calls with a non-zero id since sheap_init,                 *)
(* sheap_getLatestAllocationIDs(destination, n) returns the smallest of n, *)
(* k and the capacity of the ring, and destination holds that many of the  *)
(* recorded ids, the newest first, each recording once.                    *)
(***************************************************************************)
Smallest(S) == CHOOSE x \in S : \A y \in S : x <= y

LatestIdsAsked == Initialized /\ last.op = "getLatestAllocationIDs"

C18_LatestIdsNewestFirst ==
  LatestIdsAsked =>
    /\ last.ret = Smallest({last.arg, Len(recorded), SHEAP_HEADER_ID_LOG_SIZE})
    /\ last.dest = SubSeq(recorded, 1, last.ret)

\* more ids are returned than were recorded
C18_Witness == LatestIdsAsked /\ last.ret > Len(recorded)

\* the same holds while fewer than sixteen ids are recorded: the slot that
\* index -1 of the uint32_t loop counter names, 15, is still zero
LatestIdsOfShortRecord ==
  (LatestIdsAsked /\ Len(recorded) < 16) =>
    /\ last.ret = Smallest({last.arg, Len(recorded), SHEAP_HEADER_ID_LOG_SIZE})
    /\ last.dest = SubSeq(recorded, 1, last.ret)

(***************************************************************************)
(* C19: sheap_getAllocationID(p, &out) returns SHEAP_OK exactly when p is  *)
(* the payload of a block that is allocated now, and then out is the id    *)
(* given to the call that allocated it; for a block that has been freed    *)
(* the status is not SHEAP_OK and out is not written.                      *)
(***************************************************************************)
IdAsked == last.op = "getAllocationID"

C19_IdOfAllocatedBlockOnly ==
  IdAsked =>
    /\ (last.status = "SHEAP_OK") <=> (last.arg \in DOMAIN live)
    /\ (last.status = "SHEAP_OK") => last.out = live[last.arg].id
    /\ (last.status # "SHEAP_OK") => ~last.written

\* the id of a released pointer is asked for, and out is written
C19_Witness ==
  IdAsked /\ last.cls = "stale" /\ last.status = "SHEAP_OK" /\ last.written

\* for the pointers the caller holds the call does as described
IdOfHeldPointer ==
  (IdAsked /\ last.cls = "live") =>
    last.status = "SHEAP_OK" /\ last.out = live[last.arg].id

(***************************************************************************)
(* C20: every sheap_malloc, sheap_calloc and sheap_free that acquired the  *)
(* heap mutex has released it when it returns, whatever the return path,   *)
(* so no call of another task fails to acquire the mutex because of a call *)
(* that has returned.                                                      *)
(***************************************************************************)
AcquireFailed ==
  /\ last.op \in {"malloc", "calloc", "free"}
  /\ last.reports = << "SHEAPERD_ERROR_MUTEX_ACQUIRE_FAILED" >>

C20_MutexReleasedOnReturn == gMemMutex.count = 0 /\ ~AcquireFailed

\* a task is refused the mutex that another task holds between calls
C20_Witness == AcquireFailed /\ gMemMutex.owner # running

\* the mutex stays held only by a request of no byte
MutexKeptOnlyForZeroSize ==
  [][gMemMutex'.count > gMemMutex.count =>
       /\ last'.op \in {"malloc", "calloc"}
       /\ last'.reports = << "SHEAP_SIZE_ZERO_ALLOC" >>]_vars

(***************************************************************************)
(* C21: sheap_getAllocationID has released the heap mutex whenever it      *)
(* returns, also when it returns early for a null pointer, a pointer       *)
(* outside the arena or a block with an invalid header or boundary CRC.    *)
(***************************************************************************)
C21_QueryReleasesMutex == IdAsked => gMemMutex.count = 0

\* a query of another task is refused the mutex that a query which returned
\* SHEAP_INVALID_POINTER still holds
C21_Witness ==
  /\ IdAsked
  /\ last.status = "SHEAP_ERROR"
  /\ last.reports = << "SHEAPERD_ERROR_MUTEX_ACQUIRE_FAILED" >>
  /\ gMemMutex.owner # running

\* the mutex stays held only by a query that returns SHEAP_INVALID_POINTER
MutexKeptOnlyForInvalidPointer ==
  [][gMemMutex'.count > gMemMutex.count =>
       /\ last'.op = "getAllocationID"
       /\ last'.status = "SHEAP_INVALID_POINTER"]_vars

(***************************************************************************)
(* C22: without an RTOS, a sheap_malloc or sheap_calloc that begins while  *)
(* another one is in progress returns NULL and reports                     *)
(* SHEAP_MALLOC_CALL_OVERLAP, a sheap_free that begins while another one   *)
(* is in progress reports SHEAP_FREE_CALL_OVERLAP, neither touches the     *)
(* heap, and when the interrupted call has returned, normally, its busy    *)
(* flag is clear.                                                          *)
(***************************************************************************)
\* the interrupt handler's call: the interrupted call does not move
InnerCall(ops) == interrupted' = interrupted /\ last'.op \in ops

HeapUntouched ==
  mem' = mem /\ gHeap' = gHeap /\ gHeaderIds' = gHeaderIds /\ live' = live

OuterReturns == interrupted.op # "none" /\ interrupted'.op = "none"

AllocReentryRejected ==
  (interrupted.op \in {"malloc", "calloc"} /\ InnerCall({"malloc", "calloc"})) =>
     /\ last'.reports = << "SHEAP_MALLOC_CALL_OVERLAP" >>
     /\ last'.ret = NULL
     /\ HeapUntouched

FreeReentryRejected ==
  (interrupted.op = "free" /\ InnerCall({"free"})) =>
     /\ last'.reports = << "SHEAP_FREE_CALL_OVERLAP" >>
     /\ HeapUntouched

OuterCompletes ==
  OuterReturns =>
     /\ ~allocBusy' /\ ~freeBusy'
     /\ last'.op = interrupted.op
     /\ last'.reports # << "SHEAP_MALLOC_CALL_OVERLAP" >>
     /\ last'.reports # << "SHEAP_FREE_CALL_OVERLAP" >>

C22_ReentryRejected ==
  [][AllocReentryRejected /\ FreeReentryRejected /\ OuterCompletes]_vars

\* the handler's request is served although a request of the main program
\* is in progress
C22_Witness ==
  /\ interrupted.op = "malloc"
  /\ interrupted.pc = "tested"
  /\ last.op = "malloc"
  /\ last.ret # NULL

\* once the interrupted call has stored its busy flag, the handler's call of
\* the same kind is rejected and touches nothing, and the flags are clear
\* when the interrupted call has returned
ReentryRejectedBehindStore ==
  [][/\ interrupted.pc = "flagged" => AllocReentryRejected /\ FreeReentryRejected
     /\ OuterCompletes]_vars

(***************************************************************************)
(* The region table and the regions of the MPU.                            *)
(***************************************************************************)
Slots == 0..(gNumberOfRegions - 1)
Occupied(i) == gTasksRegions[i].taskId # -1
OccupiedSlots == {i \in Slots : Occupied(i)}
HardwareSlots == 0..(HardwareRegions - 1)

(***************************************************************************)
(* C23: whatever stackguard_addTask, stackguard_addTaskByteSize and        *)
(* stackguard_removeTask calls were made, no two occupied slots of the     *)
(* region table carry the same taskId, also when a taskId is added that is *)
(* registered already.                                                     *)
(***************************************************************************)
C23_TaskIdsDistinct ==
  \A i \in OccupiedSlots, j \in OccupiedSlots :
     gTasksRegions[i].taskId = gTasksRegions[j].taskId => i = j

\* a taskId is added a second time and now sits in two slots
C23_Witness ==
  /\ last.op = "addTask"
  /\ last.status = "STACKGUARD_NO_ERROR"
  /\ \E i \in OccupiedSlots, j \in OccupiedSlots :
        i # j /\ gTasksRegions[i].taskId = last.arg
              /\ gTasksRegions[j].taskId = last.arg

\* between the calls the scheduler makes, slot i of the table and region i of
\* the MPU agree wherever the slot is occupied
OccupiedSlotsProgrammed ==
  \A i \in OccupiedSlots :
     /\ MPU.region[i].enabled
     /\ MPU.region[i].address = gTasksRegions[i].mpuRegion.address
     /\ MPU.region[i].size = gTasksRegions[i].mpuRegion.size

(***************************************************************************)
(* C24: after stackguard_taskSwitchIn(T, true) with T registered, exactly  *)
(* one region of the MPU allows all access, its base address is the stack  *)
(* base registered for T, and every other occupied region has the          *)
(* permission configured for tasks switched out; with T not registered no  *)
(* region allows all access and every occupied region has that permission. *)
(***************************************************************************)
SwitchedIn == last.op = "taskSwitchIn" /\ last.enableMPU

FullAccessRegions ==
  {n \in HardwareSlots :
     MPU.region[n].enabled /\ MPU.region[n].ap = MPU_REGION_ALL_ACCESS_ALLOWED}

SlotsOf(taskId) == {i \in OccupiedSlots : gTasksRegions[i].taskId = taskId}

OthersDenied(taskId) ==
  \A i \in OccupiedSlots \ SlotsOf(taskId) :
     MPU.region[i].ap = STACKGUARD_DEFAULT_TASK_SWITCH_OUT_PERMISSION

C24_OneRegionOpen ==
  SwitchedIn =>
    IF SlotsOf(last.arg) # {}
    THEN /\ Cardinality(FullAccessRegions) = 1
         /\ \A n \in FullAccessRegions : \E i \in SlotsOf(last.arg) :
               MPU.region[n].address = gTasksRegions[i].mpuRegion.address
         /\ OthersDenied(last.arg)
    ELSE FullAccessRegions = {} /\ OthersDenied(last.arg)

\* the task switched in is registered once, and two regions allow all access
C24_Witness ==
  /\ SwitchedIn
  /\ Cardinality(SlotsOf(last.arg)) = 1
  /\ Cardinality(FullAccessRegions) = 2

\* among the regions of occupied slots, those of the task switched in allow
\* all access and the others have the switch-out permission
OccupiedRegionsSelected ==
  SwitchedIn =>
    /\ OccupiedSlotsProgrammed
    /\ \A i \in SlotsOf(last.arg) :
          MPU.region[i].ap = MPU_REGION_ALL_ACCESS_ALLOWED
    /\ OthersDenied(last.arg)

(***************************************************************************)
(* C25: after every stackguard_taskSwitchIn a region of the MPU is enabled *)
(* only if the slot of its index is occupied, and then with the base and   *)
(* the size of that slot; no region stays programmed for the stack of a    *)
(* task that was removed.                                                  *)
(***************************************************************************)
C25_RegistersFollowTable ==
  last.op = "taskSwitchIn" =>
    \A n \in HardwareSlots :
       MPU.region[n].enabled =>
         /\ n \in OccupiedSlots
         /\ MPU.region[n].address = gTasksRegions[n].mpuRegion.address
         /\ MPU.region[n].size = gTasksRegions[n].mpuRegion.size

\* a region is still enabled for a slot that has been emptied
C25_Witness ==
  /\ last.op = "taskSwitchIn"
  /\ \E n \in HardwareSlots \ OccupiedSlots :
        MPU.region[n].enabled /\ MPU.region[n].address # 0

(***************************************************************************)
(* C26: when stackguard_addTask or stackguard_addTaskByteSize returns an   *)
(* error, the region table, gNextUnusedRegion, the region registers of the *)
(* MPU and its enable state are as they were before the call, and the      *)
(* stackguard mutex is not held.                                           *)
(***************************************************************************)
AddFailed ==
  /\ last.op \in {"addTask", "addTaskByteSize"}
  /\ last.status # "STACKGUARD_NO_ERROR"

C26_FailedAddChangesNothing ==
  [][AddFailed' =>
       /\ gTasksRegions' = gTasksRegions
       /\ gNextUnusedRegion' = gNextUnusedRegion
       /\ MPU' = MPU
       /\ gStackMutex'.count = 0]_vars

\* a task is registered, and an add refused by the driver has returned with
\* the MPU switched off
C26_Witness ==
  /\ AddFailed
  /\ last.status \in {"STACKGUARD_INVALID_MPU_ADDRESS",
                      "STACKGUARD_INVALID_STACK_ALIGNMENT"}
  /\ OccupiedSlots # {}
  /\ ~memory_protection_isMPUEnabled(MPU)

\* a failed add leaves the table, the index and the region registers alone and
\* holds no mutex; the enable bit is cleared when the driver refused the region
FailedAddKeepsRegions ==
  [][AddFailed' =>
       /\ gTasksRegions' = gTasksRegions
       /\ gNextUnusedRegion' = gNextUnusedRegion
       /\ MPU'.region = MPU.region
       /\ MPU'.RNR = MPU.RNR
       /\ gStackMutex'.count = 0
       /\ MPU'.CTRL # MPU.CTRL =>
             /\ MPU'.CTRL = 0
             /\ last'.status \in {"STACKGUARD_INVALID_MPU_ADDRESS",
                                  "STACKGUARD_INVALID_STACK_ALIGNMENT"}]_vars

(***************************************************************************)
(* C28: for every 32-bit taskId t, 0xFFFFFFFF included, a call of          *)
(* stackguard_removeTask(t) that gets the mutex returns TASK_NOT_FOUND and *)
(* changes nothing if and only if no occupied slot carries t; otherwise it *)
(* returns no error and empties one slot that carried t, leaving every     *)
(* other slot as it was.                                                   *)
(***************************************************************************)
RemoveReturned ==
  /\ last.op = "removeTask"
  /\ last.status # "STACKGUARD_MUTEX_ACQUIRE_FAILED"

RemoveDone(taskId) ==
  IF SlotsOf(taskId) = {}
  THEN /\ last'.status = "STACKGUARD_TASK_NOT_FOUND"
       /\ UNCHANGED << gTasksRegions, gNextUnusedRegion >>
  ELSE /\ last'.status = "STACKGUARD_NO_ERROR"
       /\ \E i \in SlotsOf(taskId) :
             /\ gTasksRegions'[i].taskId = -1
             /\ \A j \in Slots \ {i} : gTasksRegions'[j] = gTasksRegions[j]

C28_RemoveFindsOccupiedOnly == [][RemoveReturned' => RemoveDone(last'.arg)]_vars

\* stackguard_removeTask(0xFFFFFFFF) has returned no error
C28_Witness ==
  /\ RemoveReturned
  /\ last.arg = -1
  /\ last.status = "STACKGUARD_NO_ERROR"

\* the same for every taskId other than 0xFFFFFFFF
RemoveOfTaskId ==
  [][RemoveReturned' /\ last'.arg # -1 => RemoveDone(last'.arg)]_vars

(***************************************************************************)
(* The scheduler initialises the stack guard once and registers the stack  *)
(* of one task with every size code of mpu_regionSize_t; the stack bases   *)
(* are 0, 0x20000000, 0x20000010, 0x20000020, 0x80000000 and 0xFFFFFFE0.   *)
(***************************************************************************)
AlignBases ==
  {0, StackBase, StackBase + 16, StackBase + 32, (-2147483647) - 1, -32}

SizeCodes == REGIONSIZE_32B..REGIONSIZE_4GB

NextAlign ==
  \/ gNumberOfRegions = 0 /\ stackguard_init
  \/ /\ OccupiedSlots = {}
     /\ \E sp \in AlignBases, stackSize \in SizeCodes :
          stackguard_addTask(7, sp, stackSize, MPU_REGION_PRIVELEGED_RW, FALSE)
  \/ \E enableMPU \in BOOLEAN : stackguard_taskSwitchIn(7, enableMPU)
  \/ stackguard_guard

SpecAlign == InitStackguard /\ [][NextAlign]_vars

(***************************************************************************)
(* C27: with a free slot, stackguard_addTask returns INVALID_MPU_ADDRESS   *)
(* when the stack base is not a multiple of 32 and INVALID_STACK_ALIGNMENT *)
(* when it is a multiple of 32 but not of the region size 2^(code+1), for  *)
(* every size code 0x04..0x1F; and every occupied slot with such a size    *)
(* code has a base that is a multiple of 32 and of its region size.        *)
(***************************************************************************)
\* a uint32_t address is a multiple of 2^(code+1)
MultipleOfRegionSize(address, code) ==
  IF code = 31 THEN address = 0
  ELSE IF code = 30 THEN address \in {0, (-2147483647) - 1}
  ELSE address % (2 ^ (code + 1)) = 0

AddStatus(sp, code) ==
  IF sp % 32 # 0 THEN "STACKGUARD_INVALID_MPU_ADDRESS"
  ELSE IF ~MultipleOfRegionSize(sp, code) THEN "STACKGUARD_INVALID_STACK_ALIGNMENT"
  ELSE "STACKGUARD_NO_ERROR"

AddRefusesMisaligned ==
  \A sp \in AlignBases, code \in SizeCodes :
     /\ gNextUnusedRegion < gNumberOfRegions
     /\ AddStatus(sp, code) # "STACKGUARD_NO_ERROR"
     /\ last'.op = "addTask"
     /\ stackguard_addTask(7, sp, code, MPU_REGION_PRIVELEGED_RW, FALSE)
     => last'.status = AddStatus(sp, code)

OccupiedSlotsAligned ==
  \A i \in OccupiedSlots :
     gTasksRegions[i].mpuRegion.size \in SizeCodes =>
       /\ gTasksRegions[i].mpuRegion.address % 32 = 0
       /\ MultipleOfRegionSize(gTasksRegions[i].mpuRegion.address,
                               gTasksRegions[i].mpuRegion.size)

C27_AlignmentChecked == [][AddRefusesMisaligned]_vars /\ []OccupiedSlotsAligned

\* a stack of 2 GiB is registered at 0x80000000
C27_Witness ==
  /\ last.op = "addTask"
  /\ last.status = "STACKGUARD_NO_ERROR"
  /\ \E i \in OccupiedSlots :
        /\ gTasksRegions[i].mpuRegion.size = REGIONSIZE_4GB - 1
        /\ gTasksRegions[i].mpuRegion.address = (-2147483647) - 1

(***************************************************************************)
(* The scheduler registers stacks by their size in bytes (16, 32 and 48    *)
(* bytes) and by the size codes next to both ends of mpu_regionSize_t, and *)
(* removes them again.                                                     *)
(***************************************************************************)
ByteSizes == {16, 32, 48}
ByteSizeBases == {0, StackBase}
EdgeSizeCodes == {REGIONSIZE_32B - 1, REGIONSIZE_4GB + 1}

NextSizeCodes ==
  \/ gNumberOfRegions = 0 /\ stackguard_init
  \/ \E sp \in ByteSizeBases, stackSize \in ByteSizes :
       stackguard_addTaskByteSize(7, sp, stackSize, MPU_REGION_PRIVELEGED_RW, FALSE)
  \/ \E stackSize \in EdgeSizeCodes :
       stackguard_addTask(9, StackBase, stackSize, MPU_REGION_PRIVELEGED_RW, FALSE)
  \/ \E taskId \in TaskIds : stackguard_removeTask(taskId)
  \/ \E enableMPU \in BOOLEAN : stackguard_taskSwitchIn(7, enableMPU)

SpecSizeCodes == InitStackguard /\ [][NextSizeCodes]_vars

(***************************************************************************)
(* C30: after any calls of stackguard_addTask, stackguard_addTaskByteSize  *)
(* and stackguard_removeTask every occupied slot has a size code in        *)
(* 0x04..0x1F; stackguard_addTaskByteSize registers a task only for a      *)
(* stack size that is a power of two of at least 32 bytes, and with the    *)
(* code c for which 2^(c+1) is the stack size.                             *)
(***************************************************************************)
SizeCodesInRange ==
  \A i \in OccupiedSlots : gTasksRegions[i].mpuRegion.size \in SizeCodes

ByteSizeRegistered ==
  \A sp \in ByteSizeBases, stackSize \in ByteSizes :
     /\ last'.op = "addTaskByteSize"
     /\ last'.status = "STACKGUARD_NO_ERROR"
     /\ stackguard_addTaskByteSize(7, sp, stackSize, MPU_REGION_PRIVELEGED_RW, FALSE)
     => /\ stackSize >= 32
        /\ \E c \in SizeCodes \ {REGIONSIZE_4GB} :
              /\ 2 ^ (c + 1) = stackSize
              /\ gTasksRegions'[gNextUnusedRegion].mpuRegion.size = c

C30_SizeCodesValid == []SizeCodesInRange /\ [][ByteSizeRegistered]_vars

\* a stack of 16 bytes has been registered with the size code 3
C30_Witness ==
  /\ last.op = "addTaskByteSize"
  /\ last.status = "STACKGUARD_NO_ERROR"
  /\ \E i \in OccupiedSlots :
        /\ gTasksRegions[i].taskId = 7
        /\ gTasksRegions[i].mpuRegion.size = REGIONSIZE_32B - 1

\* for stack sizes of at least 32 bytes stackguard_addTaskByteSize registers
\* the code of the size, and only for powers of two
ByteSizeOfRegionRegistered ==
  [][\A sp \in ByteSizeBases, stackSize \in ByteSizes \ {16} :
       /\ last'.op = "addTaskByteSize"
       /\ last'.status = "STACKGUARD_NO_ERROR"
       /\ stackguard_addTaskByteSize(7, sp, stackSize, MPU_REGION_PRIVELEGED_RW, FALSE)
       => \E c \in SizeCodes \ {REGIONSIZE_4GB} :
             /\ 2 ^ (c + 1) = stackSize
             /\ gTasksRegions'[gNextUnusedRegion].mpuRegion.size = c]_vars

(***************************************************************************)
(* stackguard_taskSwitchIn and stackguard_addTask in steps.  The two       *)
(* stores of memory_protection_configureRegion, to MPU->RBAR and to        *)
(* MPU->RASR, are separate steps, and so are the rounds of the loop of     *)
(* stackguard_taskSwitchIn; between two steps a call of higher priority    *)
(* runs from entry to return.  interrupted holds the call in progress:     *)
(* its arguments, its loop index i, the region it is configuring, and the  *)
(* table and the MPU as they were when it was entered.                     *)
(***************************************************************************)
switch_enter(taskId, enableMPU) ==
  /\ interrupted.op = "none"
  /\ interrupted' =
       [op |-> "taskSwitchIn", pc |-> "loop", busy |-> FALSE,
        args |-> [taskId |-> taskId, enableMPU |-> enableMPU, i |-> 0,
                  region |-> createDefaultRegion(0), table |-> gTasksRegions,
                  mpu |-> MPU]]
  /\ MPU' = memory_protection_disableMPU(MPU)
  /\ UNCHANGED << heapVars, rtos, running, last, gNumberOfRegions,
                  gNextUnusedRegion, gTasksRegions, gStackMutex >>

\* one round of the loop up to the store to MPU->RBAR
switch_round ==
  /\ interrupted.op = "taskSwitchIn"
  /\ interrupted.pc = "loop"
  /\ interrupted.args.i < gNumberOfRegions
  /\ LET a == interrupted.args
         region == SwitchedRegion(gTasksRegions[a.i], a.i, a.taskId)
     IN IF gTasksRegions[a.i].taskId = -1
        THEN /\ MPU' = MPU
             /\ interrupted' = [interrupted EXCEPT !.args.i = a.i + 1]
        ELSE IF ~isAddressValid(region.address) \/ ~SwitchAligned(region, TRUE)
        THEN /\ MPU' = memory_protection_disableMPU(MPU)
             /\ interrupted' = [interrupted EXCEPT !.args.i = a.i + 1]
        ELSE /\ MPU' = WriteRBAR(memory_protection_disableMPU(MPU), region)
             /\ interrupted' = [interrupted EXCEPT !.pc = "rasr",
                                                   !.args.region = region]
  /\ UNCHANGED << heapVars, rtos, running, last, gNumberOfRegions,
                  gNextUnusedRegion, gTasksRegions, gStackMutex >>

\* the store to MPU->RASR and memory_protection_enableMPU
switch_rasr ==
  /\ interrupted.op = "taskSwitchIn"
  /\ interrupted.pc = "rasr"
  /\ MPU' = memory_protection_enableMPU(WriteRASR(MPU, interrupted.args.region))
  /\ interrupted' = [interrupted EXCEPT !.pc = "loop",
                                        !.args.i = interrupted.args.i + 1]
  /\ UNCHANGED << heapVars, rtos, running, last, gNumberOfRegions,
                  gNextUnusedRegion, gTasksRegions, gStackMutex >>

switch_return ==
  /\ interrupted.op = "taskSwitchIn"
  /\ interrupted.pc = "loop"
  /\ interrupted.args.i >= gNumberOfRegions
  /\ MPU' = IF interrupted.args.enableMPU
            THEN memory_protection_enableMPU(MPU) ELSE MPU
  /\ last' = [NoCall EXCEPT
                !.op = "taskSwitchIn", !.arg = interrupted.args.taskId,
                !.enableMPU = interrupted.args.enableMPU,
                !.reports = IF memory_protection_isMPUEnabled(interrupted.args.mpu)
                            THEN << >> ELSE << "STACKGUARD_MPU_NOT_ENABLED" >>]
  /\ interrupted' = NoInterrupt
  /\ UNCHANGED << heapVars, rtos, running, gNumberOfRegions,
                  gNextUnusedRegion, gTasksRegions, gStackMutex >>

\* stackguard_addTask of a region the driver accepts, up to the store to
\* MPU->RBAR
add_enter(taskId, sp, stackSize, initialAP, xn) ==
  /\ interrupted.op = "none"
  /\ gNextUnusedRegion < gNumberOfRegions
  /\ stackguard_acquireMutex
  /\ isAddressValid(sp)
  /\ isAlignmentValid(TaskRegion(sp, stackSize, initialAP, xn)) = {TRUE}
  /\ gStackMutex' = util_acquireMutex(gStackMutex)
  /\ MPU' = WriteRBAR(memory_protection_disableMPU(MPU),
                      TaskRegion(sp, stackSize, initialAP, xn))
  /\ interrupted' =
       [op |-> "addTask", pc |-> "rasr", busy |-> FALSE,
        args |-> [taskId |-> taskId,
                  region |-> TaskRegion(sp, stackSize, initialAP, xn),
                  table |-> gTasksRegions, mpu |-> MPU]]
  /\ UNCHANGED << heapVars, rtos, running, last, gNumberOfRegions,
                  gNextUnusedRegion, gTasksRegions >>

\* the store to MPU->RASR and the rest of stackguard_addTask
add_resume ==
  /\ interrupted.op = "addTask"
  /\ interrupted.pc = "rasr"
  /\ MPU' = memory_protection_enableMPU(WriteRASR(MPU, interrupted.args.region))
  /\ gTasksRegions' =
       [gTasksRegions EXCEPT ![gNextUnusedRegion] =
          [taskId |-> interrupted.args.taskId,
           mpuRegion |-> interrupted.args.region]]
  /\ gNextUnusedRegion' =
       NextUnusedFrom([gTasksRegions EXCEPT ![gNextUnusedRegion] =
                         [taskId |-> interrupted.args.taskId,
                          mpuRegion |-> interrupted.args.region]],
                      gNextUnusedRegion)
  /\ gStackMutex' = util_releaseMutex(gStackMutex)
  /\ GuardReturns("addTask", interrupted.args.taskId, "STACKGUARD_NO_ERROR")
  /\ interrupted' = NoInterrupt
  /\ UNCHANGED << heapVars, rtos, running, gNumberOfRegions >>

PreemptBase(taskId) == IF taskId = 7 THEN StackBase ELSE StackBase + 32

\* a call of higher priority inside stackguard_taskSwitchIn
preempt_switch ==
  /\ interrupted.op = "taskSwitchIn"
  /\ ~interrupted.busy
  /\ interrupted' = [interrupted EXCEPT !.busy = TRUE]
  /\ \/ \E taskId \in TaskIds :
          stackguard_addTask_impl("addTask", taskId, PreemptBase(taskId),
                                  REGIONSIZE_32B, MPU_REGION_PRIVELEGED_RW, FALSE)
     \/ \E taskId \in TaskIds : stackguard_removeTask_impl(taskId)

\* the context switch inside stackguard_addTask
preempt_add ==
  /\ interrupted.op = "addTask"
  /\ ~interrupted.busy
  /\ interrupted' = [interrupted EXCEPT !.busy = TRUE]
  /\ \E taskId \in TaskIds, enableMPU \in BOOLEAN :
       stackguard_taskSwitchIn_impl(taskId, enableMPU)

NextPreempt ==
  \/ interrupted.op = "none" /\ gNumberOfRegions = 0 /\ stackguard_init
  \/ /\ interrupted.op = "none"
     /\ \E taskId \in TaskIds : stackguard_removeTask(taskId)
  \/ \E taskId \in TaskIds, enableMPU \in BOOLEAN : switch_enter(taskId, enableMPU)
  \/ switch_round
  \/ switch_rasr
  \/ switch_return
  \/ \E taskId \in TaskIds :
       add_enter(taskId, PreemptBase(taskId), REGIONSIZE_32B,
                 MPU_REGION_PRIVELEGED_RW, FALSE)
  \/ add_resume
  \/ preempt_switch
  \/ preempt_add

SpecPreempt == InitStackguard /\ [][NextPreempt]_vars

(***************************************************************************)
(* C29: when stackguard_taskSwitchIn is interrupted by one call of         *)
(* stackguard_addTask or stackguard_removeTask, or itself interrupts a     *)
(* stackguard_addTask, the MPU at its return is the MPU that the switch    *)
(* gives when it runs as a whole before that call or as a whole after it:  *)
(* programmed entirely from the table before the call or entirely from     *)
(* the table after it.                                                     *)
(***************************************************************************)
\* the MPU after an uninterrupted stackguard_taskSwitchIn on table
SwitchResult(table, mpu, taskId, enableMPU) ==
  IF enableMPU
  THEN memory_protection_enableMPU(
         SwitchFrom(table, memory_protection_disableMPU(mpu), 0, taskId, TRUE))
  ELSE SwitchFrom(table, memory_protection_disableMPU(mpu), 0, taskId, TRUE)

\* the slot in which two tables differ
ChangedSlot(before, after) == CHOOSE k \in Slots : before[k] # after[k]

\* the MPU after the call that last returned, had it begun with mpu; before
\* and after are the table around that call
CallResult(before, after, mpu) ==
  IF last.op = "addTask" /\ last.status = "STACKGUARD_NO_ERROR"
  THEN memory_protection_configureRegion(
         mpu, after[ChangedSlot(before, after)].mpuRegion, TRUE).mpu
  ELSE mpu

SwitchInterrupted ==
  /\ interrupted.op = "taskSwitchIn"
  /\ interrupted'.op = "none"
  => LET a == interrupted.args
     IN IF ~interrupted.busy
        THEN MPU' = SwitchResult(a.table, a.mpu, a.taskId, a.enableMPU)
        ELSE \/ MPU' = SwitchResult(gTasksRegions,
                                    CallResult(a.table, gTasksRegions, a.mpu),
                                    a.taskId, a.enableMPU)
             \/ MPU' = CallResult(a.table, gTasksRegions,
                                  SwitchResult(a.table, a.mpu, a.taskId,
                                               a.enableMPU))

AddedTable ==
  [gTasksRegions EXCEPT ![interrupted.args.region.number] =
     [taskId |-> interrupted.args.taskId, mpuRegion |-> interrupted.args.region]]

SwitchInterrupts ==
  /\ interrupted.op = "addTask"
  /\ ~interrupted.busy
  /\ interrupted'.busy
  => \/ MPU' = SwitchResult(gTasksRegions, interrupted.args.mpu,
                            last'.arg, last'.enableMPU)
     \/ MPU' = SwitchResult(
                 AddedTable,
                 memory_protection_configureRegion(
                   interrupted.args.mpu, interrupted.args.region, TRUE).mpu,
                 last'.arg, last'.enableMPU)

C29_SwitchSeesOneTable == [][SwitchInterrupted /\ SwitchInterrupts]_vars

\* stackguard_taskSwitchIn has returned inside a stackguard_addTask that has
\* stored the base of its region and not yet the attributes, and has moved
\* the region selection of the MPU to another region
C29_Witness ==
  /\ interrupted.op = "addTask"
  /\ interrupted.busy
  /\ last.op = "taskSwitchIn"
  /\ MPU.RNR # interrupted.args.region.number
  /\ MPU.region[interrupted.args.region.number].address
       = interrupted.args.region.address

\* a stackguard_taskSwitchIn that is not interrupted programs the MPU from the
\* table it was entered with
SwitchNotInterrupted ==
  [][interrupted.op = "taskSwitchIn" /\ interrupted'.op = "none"
       /\ ~interrupted.busy
     => MPU' = SwitchResult(interrupted.args.table, interrupted.args.mpu,
                            interrupted.args.taskId,
                            interrupted.args.enableMPU)]_vars

(***************************************************************************)
(* C31: an allocation of aligned size a from a candidate free block of     *)
(* payload size pre takes the whole candidate (size pre, no new block)     *)
(* when pre < a + 2*sizeof(header) + (minimum size + 2*sizeof(header));    *)
(* otherwise the candidate becomes an allocated block of size a followed   *)
(* at once by a free block of payload size pre - (a + 2*sizeof(header))    *)
(* with alignment offset 0 and a valid header and boundary tag.            *)
(***************************************************************************)
Candidate == last'.ret - SizeofBlockInfo

ResidueTooSmall(pre, a) ==
  pre < a + 2 * SizeofBlockInfo
        + (SHEAPERD_SHEAP_MINIMUM_MALLOC_SIZE + 2 * SizeofBlockInfo)

SplitAsDecided(pre, a) ==
  IF ResidueTooSmall(pre, a)
  THEN /\ sizeOf(mem', Candidate) = pre
       /\ Blocks' = Blocks
  ELSE /\ sizeOf(mem', Candidate) = a
       /\ Len(Blocks') = Len(Blocks) + 1
       /\ LET behind == Candidate + a + 2 * SizeofBlockInfo
          IN /\ GET_NEXT_MEMORY_BLOCK(mem', Candidate) = behind
             /\ ~isAllocated(mem', behind)
             /\ sizeOf(mem', behind) = pre - (a + 2 * SizeofBlockInfo)
             /\ alignmentOffset(mem', behind) = 0
             /\ isBlockValid(mem', behind)

C31_SplitDecision ==
  [][AllocationStep
       => /\ isAllocated(mem', Candidate)
          /\ SplitAsDecided(sizeOf(mem, Candidate), RoundedUp(last'.arg))]_vars

\* a candidate with room for two more tags but not for a block of minimum
\* size behind them has been taken whole
C31_Witness ==
  /\ last.op \in {"malloc", "calloc"}
  /\ last.ret # NULL
  /\ ~last.split
  /\ sizeOf(mem, last.ret - SizeofBlockInfo)
       >= RoundedUp(last.arg) + 2 * SizeofBlockInfo

\* a candidate has been split
C31_SplitReached ==
  /\ last.op \in {"malloc", "calloc"}
  /\ last.ret # NULL
  /\ last.split

(***************************************************************************)
(* A stray write: code outside the allocator stores one byte into the      *)
(* header or the boundary tag of a free block.  The scenario has an arena  *)
(* of three blocks, and a stray write happens while every block is valid.  *)
(***************************************************************************)
StrayArenaSize == 9 * SizeofBlockInfo + 4
StrayBytes == {4 * SizeofBlockInfo + 16, 165}
StrayOffsets == {0, OffAlign, OffCrc}

\* the tag of block b that the write goes to
StrayTag(b, boundary) == IF boundary THEN GET_BOUNDARY_TAG(mem, b) ELSE b

\* the reads that follow the size field of the tag stay inside the buffer: the
\* size in a header is left as it was, and the size in a boundary tag names an
\* address that is not below the buffer
StrayKeepsReadsInside(m, b, boundary) ==
  IF boundary
  THEN GET_BOUNDARY_TAG(mem, b) - SizeofBlockInfo - sizeOf(m, GET_BOUNDARY_TAG(mem, b))
         >= BufferBase
  ELSE sizeOf(m, b) = sizeOf(mem, b)

stray_write(b, boundary, off, v) ==
  /\ ~isAllocated(mem, b)
  /\ Byte(mem, StrayTag(b, boundary) + off) # v
  /\ StrayKeepsReadsInside(FillMemory(mem, StrayTag(b, boundary) + off, 1, v), b, boundary)
  /\ mem' = FillMemory(mem, StrayTag(b, boundary) + off, 1, v)
  /\ last' = [NoCall EXCEPT !.op = "stray", !.arg = b]
  /\ UNCHANGED << ext, callocValue, gStartBlock, gHeap, gHeaderIds, gCurrentIDIndex,
                  allocBusy, freeBusy, live, stale, rtos, gMemMutex, running,
                  recorded, interrupted, guardVars >>

NextStray ==
  \/ sheap_init(BufferBase + GuardBytes, StrayArenaSize)
  \/ \E id \in CallerIds : sheap_malloc(3, id)
  \/ \E p \in DOMAIN live \cup StalePointers, id \in CallerIds : sheap_free(p, id)
  \/ /\ \A c \in BlockSet : isBlockValid(mem, c)
     /\ \E b \in BlockSet, boundary \in BOOLEAN, off \in StrayOffsets, v \in StrayBytes :
          stray_write(b, boundary, off, v)

\* the memory outside the arena holds zeros
InitStray == InitFaults /\ Byte(mem, BufferBase) = 0

SpecStray == InitStray /\ [][NextStray]_vars

(***************************************************************************)
(* C32: when free(p) finds the block behind p's block (resp. the block in  *)
(* front of it) marked free but failing its CRC check, it reports          *)
(* COALESCING_NEXT_BLOCK_ALTERED_INVALID_CRC (resp. PREV), does not merge  *)
(* with it, changes none of that block's bytes, and still releases p's own *)
(* block, which ends up free with a valid header and boundary tag while    *)
(* the number of allocations goes down by one.                             *)
(***************************************************************************)
\* what a call has reported
ReportsOf(call) == {call.reports[i] : i \in DOMAIN call.reports}

\* the block that ends where block starts, found from the headers
PhysicallyPrevious(block) ==
  {b \in BlockSet : GET_NEXT_MEMORY_BLOCK(mem, b) = block}

NextMarkedFreeInvalid(block) ==
  /\ isNextBlockFree(mem, block)
  /\ ~isBlockValid(mem, GET_NEXT_MEMORY_BLOCK(mem, block))

PrevMarkedFreeInvalid(block) ==
  /\ isPreviousBlockFree(mem, block)
  /\ \E b \in PhysicallyPrevious(block) : ~isBlockValid(mem, b)

\* the block p's block has become a part of
ReleasedBlock(block) ==
  IF last'.mergedPrev THEN GET_PREV_MEMORY_BLOCK(mem, block) ELSE block

OwnBlockReleased(block) ==
  /\ ~isAllocated(mem', ReleasedBlock(block))
  /\ isBlockValid(mem', ReleasedBlock(block))
  /\ gHeap'.currentAllocations = gHeap.currentAllocations - 1

NextLeftAlone(block) ==
  /\ "SHEAP_ERROR_COALESCING_NEXT_BLOCK_ALTERED_INVALID_CRC" \in ReportsOf(last')
  /\ ~last'.mergedNext
  /\ \A a \in GET_NEXT_MEMORY_BLOCK(mem, block)..(gHeap.heapMax - 1) :
       Byte(mem', a) = Byte(mem, a)

PrevLeftAlone(block) ==
  /\ "SHEAP_ERROR_COALESCING_PREV_BLOCK_ALTERED_INVALID_CRC" \in ReportsOf(last')
  /\ ~last'.mergedPrev
  /\ \A a \in gHeap.heapMin..(block - 1) : Byte(mem', a) = Byte(mem, a)

FreeOfHeld(p) == p \in DOMAIN live /\ sheap_free(p, 0)

C32_InvalidNeighbourLeftAlone ==
  [][\A p \in DOMAIN live :
       FreeOfHeld(p) =>
         LET block == PAYLOAD_BLOCK_TO_MEMORY_BLOCK(p) IN
         /\ NextMarkedFreeInvalid(block) => NextLeftAlone(block) /\ OwnBlockReleased(block)
         /\ PrevMarkedFreeInvalid(block) => PrevLeftAlone(block) /\ OwnBlockReleased(block)]_vars

\* a held block was released while the block in front of it was marked free
\* and failed its CRC check
C32_Witness ==
  /\ last.op = "free" /\ last.cls = "live"
  /\ "SHEAP_ERROR_COALESCING_PREV_BLOCK_ALTERED_INVALID_CRC" \in ReportsOf(last)

\* the same with the block behind it
C32_NextReached ==
  /\ last.op = "free" /\ last.cls = "live"
  /\ "SHEAP_ERROR_COALESCING_NEXT_BLOCK_ALTERED_INVALID_CRC" \in ReportsOf(last)

\* C32 for the block behind alone
InvalidNextLeftAlone ==
  [][\A p \in DOMAIN live :
       FreeOfHeld(p) /\ NextMarkedFreeInvalid(PAYLOAD_BLOCK_TO_MEMORY_BLOCK(p))
         => /\ NextLeftAlone(PAYLOAD_BLOCK_TO_MEMORY_BLOCK(p))
            /\ OwnBlockReleased(PAYLOAD_BLOCK_TO_MEMORY_BLOCK(p))]_vars

(***************************************************************************)
(* C33: once the CRC of a free block has become invalid, the allocator     *)
(* neither repairs nor reclaims the block: it stays free and invalid over  *)
(* every call but sheap_init, and every allocation whose first-fit         *)
(* candidate it is returns null with SHEAP_ERROR_INVALID_BLOCK and leaves  *)
(* the arena and the statistics as they were, also when a free block       *)
(* behind it would hold the request.                                       *)
(***************************************************************************)
InvalidFreeBlocks == {b \in BlockSet : ~isAllocated(mem, b) /\ ~isBlockValid(mem, b)}

\* a call of the allocator other than sheap_init
AllocatorCall == last'.op \in {"malloc", "calloc", "free"}

StaysInvalid(b) == ~isAllocated(mem', b) /\ ~isBlockValid(mem', b)

\* sheap_malloc(size) with an invalid free block as the block the search stops at
AllocationOnInvalid(size) ==
  /\ Initialized
  /\ FirstFitWalk(mem, gStartBlock, RoundedUp(size)) \in InvalidFreeBlocks
  /\ sheap_malloc(size, 0)

AllocationRefused ==
  /\ last'.ret = NULL
  /\ last'.reports = << "SHEAP_ERROR_INVALID_BLOCK" >>
  /\ mem' = mem
  /\ gHeap' = gHeap

C33_InvalidBlockStays ==
  [][/\ AllocatorCall => \A b \in InvalidFreeBlocks : StaysInvalid(b)
     /\ AllocationOnInvalid(3) => AllocationRefused]_vars

\* an allocation was refused for an invalid block while a valid free block
\* behind it holds the request
C33_Witness ==
  /\ last.op = "malloc"
  /\ last.reports = << "SHEAP_ERROR_INVALID_BLOCK" >>
  /\ \E b \in InvalidFreeBlocks : \E c \in FreeBlocksOfSize(4) : c > b /\ isBlockValid(mem, c)

(***************************************************************************)
(* C34: after any sequence of stackguard_init (also repeated after tasks   *)
(* were added), stackguard_addTask and stackguard_removeTask,              *)
(* gNextUnusedRegion is the index of the lowest empty slot, or the number  *)
(* of usable regions when no slot is empty.                                *)
(***************************************************************************)
UsableRegions ==
  IF gNumberOfRegions < STACKGUARD_NUMBER_OF_MPU_REGIONS
  THEN gNumberOfRegions ELSE STACKGUARD_NUMBER_OF_MPU_REGIONS

EmptySlots == {i \in 0..(UsableRegions - 1) : ~Occupied(i)}

C34_NextUnusedIsLowestEmpty ==
  gNextUnusedRegion = IF EmptySlots = {} THEN UsableRegions ELSE Smallest(EmptySlots)

\* stackguard_init was called again after a task had been added
C34_Witness ==
  /\ last.op = "init"
  /\ gNextUnusedRegion # 0
  /\ EmptySlots # {}

\* the consequence drawn in C34: a successful add fills a slot that was empty
\* and changes no other slot
AddFillsEmptySlot ==
  [][last'.op \in {"addTask", "addTaskByteSize"} /\ last'.status = "STACKGUARD_NO_ERROR"
       => /\ gNextUnusedRegion \in Slots
          /\ ~Occupied(gNextUnusedRegion)
          /\ \A i \in Slots \ {gNextUnusedRegion} : gTasksRegions'[i] = gTasksRegions[i]]_vars

(***************************************************************************)
(* Two tasks in stackguard_addTask: the test of gNextUnusedRegion in line  *)
(* 130 is made before the mutex is acquired in line 133, and a task can    *)
(* lose the processor between the two.                                     *)
(***************************************************************************)
\* the test of line 130 has let the task pass, and the task is preempted
add_checked(taskId) ==
  /\ interrupted.op = "none"
  /\ gNextUnusedRegion < gNumberOfRegions
  /\ interrupted' = [op |-> "addTask", pc |-> "mutex", busy |-> FALSE,
                     args |-> [taskId |-> taskId]]
  /\ UNCHANGED << heapVars, rtos, running, last, guardVars >>

\* the other task runs stackguard_addTask from its first to its last line
add_other(taskId) ==
  /\ interrupted.op = "addTask"
  /\ interrupted.pc = "mutex"
  /\ ~interrupted.busy
  /\ taskId # interrupted.args.taskId
  /\ interrupted' = [interrupted EXCEPT !.busy = TRUE]
  /\ stackguard_addTask_impl("addTask", taskId, PreemptBase(taskId), REGIONSIZE_32B,
                             MPU_REGION_PRIVELEGED_RW, FALSE)

\* the preempted task goes on in line 133
add_behind_check ==
  /\ interrupted.op = "addTask"
  /\ interrupted.pc = "mutex"
  /\ interrupted' = NoInterrupt
  /\ stackguard_addTask_checked("addTask", interrupted.args.taskId,
                                PreemptBase(interrupted.args.taskId), REGIONSIZE_32B,
                                MPU_REGION_PRIVELEGED_RW, FALSE)
  /\ UNCHANGED << heapVars, rtos, running, gNumberOfRegions >>

NextAddRace ==
  \/ interrupted.op = "none" /\ stackguard_init
  \/ /\ interrupted.op = "none"
     /\ \E taskId \in TaskIds :
          stackguard_addTask(taskId, PreemptBase(taskId), REGIONSIZE_32B,
                             MPU_REGION_PRIVELEGED_RW, FALSE)
  \/ /\ interrupted.op = "none"
     /\ \E taskId \in TaskIds : stackguard_removeTask(taskId)
  \/ \E taskId \in TaskIds : add_checked(taskId)
  \/ \E taskId \in TaskIds : add_other(taskId)
  \/ add_behind_check

SpecAddRace == InitStackguard /\ [][NextAddRace]_vars

(***************************************************************************)
(* C35: for every number of regions the MPU reports and every interleaving *)
(* of stackguard_addTask calls of different tasks, no table entry is       *)
(* written at an index of STACKGUARD_NUMBER_OF_MPU_REGIONS or above, and   *)
(* never more tasks are registered than the smaller of the regions of the  *)
(* MPU and STACKGUARD_NUMBER_OF_MPU_REGIONS.                               *)
(***************************************************************************)
TableSlots == 0..(STACKGUARD_NUMBER_OF_MPU_REGIONS - 1)

RegisteredSlots == {i \in TableSlots : Occupied(i)}

AddStored == last'.op = "addTask" /\ last'.status = "STACKGUARD_NO_ERROR"

C35_AddsWithinRegions ==
  /\ [][AddStored => gNextUnusedRegion < STACKGUARD_NUMBER_OF_MPU_REGIONS]_vars
  /\ [](gNumberOfRegions # 0 => Cardinality(RegisteredSlots) <= UsableRegions)

\* three tasks are registered with an MPU of two regions
C35_Witness ==
  /\ last.op = "addTask"
  /\ last.status = "STACKGUARD_NO_ERROR"
  /\ gNumberOfRegions # 0
  /\ Cardinality(RegisteredSlots) > gNumberOfRegions

\* without a task preempted between the test and the mutex the registered
\* tasks are no more than the regions
AddsWithinRegionsInOrder == gNumberOfRegions # 0 => Cardinality(RegisteredSlots) <= UsableRegions

(***************************************************************************)
(* C36: after sheap_init and any sheap_malloc, sheap_calloc and sheap_free *)
(* calls with callers that store only into the bytes they asked for, every *)
(* payload byte of every free block is the overwrite pattern, and so the   *)
(* alignment padding of a block just returned consists of overwrite        *)
(* pattern bytes, also after calloc'ed blocks were freed and after splits  *)
(* and merges.                                                             *)
(***************************************************************************)
AllPattern(a, n) ==
  \A i \in 0..(n - 1) : Byte(mem, a + i) = SHEAPERD_SHEAP_OVERWRITE_VALUE

FreePayloadsCleared ==
  \A b \in BlockSet :
     ~isAllocated(mem, b) => AllPattern(b + SizeofBlockInfo, sizeOf(mem, b))

JustReturned == last.op \in {"malloc", "calloc"} /\ last.ret # NULL

\* the bytes between the bytes asked for and the boundary tag
PaddingCleared(block) ==
  AllPattern(block + SizeofBlockInfo + sizeOf(mem, block) - alignmentOffset(mem, block),
             alignmentOffset(mem, block))

C36_FreePayloadIsPattern ==
  /\ FreePayloadsCleared
  /\ JustReturned => PaddingCleared(PAYLOAD_BLOCK_TO_MEMORY_BLOCK(last.ret))

\* sheap_calloc has returned a block with alignment padding
C36_Witness ==
  /\ last.op = "calloc"
  /\ last.ret # NULL
  /\ alignmentOffset(mem, PAYLOAD_BLOCK_TO_MEMORY_BLOCK(last.ret)) > 0
  /\ callocValue # SHEAPERD_SHEAP_OVERWRITE_VALUE

\* the padding of a block that sheap_malloc has returned
MallocPaddingCleared ==
  /\ FreePayloadsCleared
  /\ last.op = "malloc" /\ last.ret # NULL
       => PaddingCleared(PAYLOAD_BLOCK_TO_MEMORY_BLOCK(last.ret))

(***************************************************************************)
(* The ID ring after many calls: the specification starts in the state     *)
(* that sheap_init and IdCallsBefore calls sheap_malloc(0, 1) lead to, a   *)
(* few calls before gCurrentIDIndex reaches the largest int16_t.           *)
(***************************************************************************)
IdCallsBefore == 32764
IdCallsBehind == 6

InitIdWrap ==
  /\ ext = FALSE
  /\ callocValue = SHEAPERD_SHEAP_OVERWRITE_VALUE
  /\ mem = updateBlockBoundary(
             updateBlockHeader(clearMemory([i \in 1..IdsArenaSize |-> 0], BufferBase,
                                           IdsArenaSize),
                               BufferBase, IdsArenaSize - 2 * SizeofBlockInfo, 0, FALSE,
                               SHEAPERD_SHEAP_AUTO_CREATED_BLOCK_ID),
             BufferBase)
  /\ gStartBlock = BufferBase
  /\ gHeap = [heapMin |-> BufferBase, heapMax |-> BufferBase + IdsArenaSize,
              currentAllocations |-> 0, totalBytesAllocated |-> 0,
              userDataAllocatedAlligned |-> 0, userDataAllocated |-> 0,
              size |-> IdsArenaSize]
  /\ gHeaderIds = [i \in 0..(SHEAP_HEADER_ID_LOG_SIZE - 1) |-> 1]
  /\ gCurrentIDIndex = IdCallsBefore - 1
  /\ allocBusy = FALSE
  /\ freeBusy = FALSE
  /\ live = << >>
  /\ stale = << >>
  /\ last = [NoCall EXCEPT !.op = "malloc", !.reports = << "SHEAP_SIZE_ZERO_ALLOC" >>]
  /\ rtos = FALSE
  /\ gMemMutex = NoMutex
  /\ running = 1
  /\ recorded = [i \in 1..SHEAP_HEADER_ID_LOG_SIZE |-> 1]
  /\ interrupted = NoInterrupt
  /\ InitGuard

NextIdWrap ==
  \/ sheap_init(BufferBase, IdsArenaSize)
  \/ /\ Len(recorded) < SHEAP_HEADER_ID_LOG_SIZE + IdCallsBehind
     /\ \E size \in {0, 3}, id \in FreshIds : sheap_malloc(size, id)
  \/ /\ Len(recorded) < SHEAP_HEADER_ID_LOG_SIZE + IdCallsBehind
     /\ \E p \in DOMAIN live \cup StalePointers, id \in FreshIds : sheap_free(p, id)

SpecIdWrap == InitIdWrap /\ [][NextIdWrap]_vars

(***************************************************************************)
(* C37: for any number of sheap_malloc and sheap_free calls with a         *)
(* non-zero id, more than 32767 included, the slot of the ID ring that is  *)
(* written lies within 0 .. capacity - 1, and the head advances by exactly *)
(* one slot modulo the capacity with every id recorded.                    *)
(***************************************************************************)
\* the slot that (gCurrentIDIndex) % SHEAP_HEADER_ID_LOG_SIZE names
HeadSlot(index) == CRem(index, SHEAP_HEADER_ID_LOG_SIZE)

IdRecorded == Len(recorded') = Len(recorded) + 1

C37_RingIndexInRange ==
  [][IdRecorded =>
       /\ HeadSlot(gCurrentIDIndex') \in 0..(SHEAP_HEADER_ID_LOG_SIZE - 1)
       /\ HeadSlot(gCurrentIDIndex') = (HeadSlot(gCurrentIDIndex) + 1) % SHEAP_HEADER_ID_LOG_SIZE
       /\ gHeaderIds'[HeadSlot(gCurrentIDIndex')] = recorded'[1]]_vars

\* an id was recorded with gCurrentIDIndex at the largest int16_t
C37_Witness ==
  /\ Len(recorded) > SHEAP_HEADER_ID_LOG_SIZE
  /\ gCurrentIDIndex < -1

\* the same while gCurrentIDIndex has not passed the largest int16_t
RingIndexInRangeBelowWrap ==
  [][IdRecorded /\ gCurrentIDIndex' >= 0 =>
       /\ HeadSlot(gCurrentIDIndex') \in 0..(SHEAP_HEADER_ID_LOG_SIZE - 1)
       /\ HeadSlot(gCurrentIDIndex') = (HeadSlot(gCurrentIDIndex) + 1) % SHEAP_HEADER_ID_LOG_SIZE
       /\ gHeaderIds'[HeadSlot(gCurrentIDIndex')] = recorded'[1]]_vars

(***************************************************************************)
(* sheap_calloc with numbers of elements whose product with the element    *)
(* size does not fit into a size_t.                                        *)
(***************************************************************************)
WideCallocArgs == {<< 1, 3 >>, << 2, 6 >>, << 65536, 65536 >>, << 1073741825, 8 >>}

NextCalloc ==
  \/ \E size \in ArenaSizes : sheap_init(BufferBase, size)
  \/ \E a \in WideCallocArgs, id \in CallerIds : sheap_calloc(a[1], a[2], id)
  \/ \E p \in DOMAIN live, id \in CallerIds : sheap_free(p, id)
  \/ \E p \in DOMAIN live, v \in CallerBytes : caller_write(p, v)

SpecCalloc == Init /\ [][NextCalloc]_vars

(***************************************************************************)
(* C38: for all numbers n and sizes of size_t, sheap_calloc(n, size, id)   *)
(* returns null or a block whose payload holds at least n * size bytes,    *)
(* the product taken over the integers; it never returns a smaller block   *)
(* because the product has wrapped.                                        *)
(***************************************************************************)
\* payload >= num * size without forming the product
HoldsProduct(payload, num, size) == num = 0 \/ size <= payload \div num

C38_CallocHoldsProduct ==
  [][\A a \in WideCallocArgs :
       (last'.op = "calloc" /\ last'.ret # NULL /\ sheap_calloc(a[1], a[2], 0))
         => HoldsProduct(sizeOf(mem', PAYLOAD_BLOCK_TO_MEMORY_BLOCK(last'.ret)),
                         a[1], a[2])]_vars

\* sheap_calloc(1073741825, 8, id) has returned a block: no other call of the
\* scenario asks sheap_alloc_impl for 8 bytes
C38_Witness == last.op = "calloc" /\ last.ret # NULL /\ last.arg = 8

\* the same for the products that fit into a size_t
CallocHoldsSmallProduct ==
  [][\A a \in {<< 1, 3 >>, << 2, 6 >>} :
       (last'.op = "calloc" /\ last'.ret # NULL /\ sheap_calloc(a[1], a[2], 0))
         => HoldsProduct(sizeOf(mem', PAYLOAD_BLOCK_TO_MEMORY_BLOCK(last'.ret)),
                         a[1], a[2])]_vars

(***************************************************************************)
(* The headers the loop of getNextFreeBlockOfSize dereferences.  The       *)
(* condition of the loop reads current->isAllocated (and current->size)    *)
(* first and compares current with gHeap.heapMax afterwards, so the header *)
(* at the address the loop stops at is read as well, whatever the address. *)
(***************************************************************************)
RECURSIVE WalkReads(_, _, _)
WalkReads(m, current, size) ==
  IF ~ULess(current, gHeap.heapMax)
  THEN {current}
  ELSE IF isAllocated(m, current) \/ ULess(sizeOf(m, current), size)
       THEN {current} \cup WalkReads(m, GET_NEXT_MEMORY_BLOCK(m, current), size)
       ELSE {current}

\* a call of sheap_malloc or sheap_calloc for size bytes that has come to
\* allocateBlock
AllocationWalked(size) ==
  /\ Initialized
  /\ size # 0
  /\ ~allocBusy
  /\ \E id \in CallerIds :
       sheap_alloc_impl("malloc", size, id, FALSE) \/ sheap_alloc_impl("calloc", size, id, TRUE)

\* the sizes sheap_alloc_impl is asked for
AskedSizes == MallocSizes \cup {SizeTimes(a[1], a[2]) : a \in CallocArgs}

InsideArena(a) == ~ULess(a, gHeap.heapMin) /\ ULess(a, gHeap.heapMax)

(***************************************************************************)
(* C39: during any call of sheap_malloc or sheap_calloc, on any reachable  *)
(* heap (one without a free block large enough included), the first-fit    *)
(* walk reads block headers only at addresses in [heapMin, heapMax); it    *)
(* never dereferences a header at or beyond heapMax.                       *)
(***************************************************************************)
C39_WalkReadsInsideArena ==
  [][\A size \in AskedSizes :
       AllocationWalked(size)
         => \A a \in WalkReads(mem, gStartBlock, sheap_align(size)) : InsideArena(a)]_vars

\* an allocation has walked the whole list and found no block
C39_Witness ==
  /\ last.op \in {"malloc", "calloc"}
  /\ last.ret = NULL
  /\ "SHEAP_OUT_OF_MEMORY" \in ReportsOf(last)

\* the walk reads no header below heapMin, and at or beyond heapMax only the
\* one it stops at
WalkReadsOnePastArena ==
  [][\A size \in AskedSizes :
       AllocationWalked(size)
         => LET reads == WalkReads(mem, gStartBlock, sheap_align(size))
            IN /\ \A a \in reads : ~ULess(a, gHeap.heapMin)
               /\ Cardinality({a \in reads : ~ULess(a, gHeap.heapMax)}) <= 1
               /\ (last'.ret # NULL => \A a \in reads : InsideArena(a))]_vars

(***************************************************************************)
(* The build without an RTOS, the interrupted call further in: a call of   *)
(* sheap_malloc or sheap_calloc of the main program has stored allocBusy,  *)
(* has found its block with getNextFreeBlockOfSize and is interrupted in   *)
(* allocateBlock in front of 'preAllocSize = allocate->size'; the handler  *)
(* calls into the heap, and the interrupted call goes on with the block it *)
(* has found.                                                              *)
(***************************************************************************)
\* the size sheap_alloc_impl is called with by the interrupted call
OuterSize ==
  IF interrupted.op = "calloc"
  THEN SizeTimes(interrupted.args[1], interrupted.args[2])
  ELSE interrupted.args[1]

OuterId == interrupted.args[Len(interrupted.args)]

\* sheap_alloc_impl behind the store to allocBusy up to the return of
\* getNextFreeBlockOfSize with a block
outer_walk ==
  /\ ~rtos
  /\ interrupted.op \in {"malloc", "calloc"}
  /\ interrupted.pc = "flagged"
  /\ gHeap.heapMin # NULL
  /\ sheap_acquireMutex
  /\ OuterSize # 0
  /\ getNextFreeBlockOfSize(mem, sheap_align(OuterSize)).block # NULL
  /\ interrupted' =
       [interrupted EXCEPT !.pc = "walked",
          !.args = << OuterSize, OuterId,
                      getNextFreeBlockOfSize(mem, sheap_align(OuterSize)).block >>]
  /\ gHeaderIds' = LogIds(OuterId)
  /\ gCurrentIDIndex' = LogIndex(OuterId)
  /\ recorded' = Recorded(OuterId)
  /\ gMemMutex' = util_acquireMutex(gMemMutex)
  /\ UNCHANGED << ext, callocValue, mem, gStartBlock, gHeap, allocBusy, freeBusy,
                  live, stale, last, rtos, running, guardVars >>

\* allocateBlock from 'preAllocSize = allocate->size' on for the block found
OuterAllocates(initializePayload) ==
  AllocateIn(mem, gHeap, interrupted.args[1], interrupted.args[2], initializePayload,
             [block |-> interrupted.args[3], reports |-> << >>])

\* the block behind the allocated one gets a boundary tag outside the arena:
\* updateBlockBoundary(remainingBlock) stores through a pointer made from the
\* size read from the block found
OuterStoresOutside ==
  LET m == OuterAllocates(FALSE).mem
      remainingBlock == GET_NEXT_MEMORY_BLOCK(m, interrupted.args[3])
      boundary == GET_BOUNDARY_TAG(m, remainingBlock)
  IN /\ OuterAllocates(FALSE).split
     /\ ULess(boundary, gHeap.heapMin) \/ ~ULess(boundary, gHeap.heapMax)

\* allocateBlock from 'preAllocSize = allocate->size' on, and the return of
\* sheap_alloc_impl.  A store outside the arena either lands in memory that
\* is none of the allocator's and the call returns, or it faults and the
\* program stops behind the stores made before it.
outer_finish ==
  /\ interrupted.pc = "walked"
  /\ UNCHANGED << ext, callocValue, gStartBlock, gHeaderIds, gCurrentIDIndex,
                  freeBusy, rtos, running, recorded, guardVars >>
  /\ \/ /\ interrupted' = NoInterrupt
        /\ AllocReturns(interrupted.op, interrupted.args[1], interrupted.args[2],
                        OuterAllocates(interrupted.op = "calloc"))
        /\ allocBusy' = FALSE
        /\ gMemMutex' = util_releaseMutex(gMemMutex)
     \/ /\ OuterStoresOutside
        /\ interrupted' = [interrupted EXCEPT !.pc = "fault"]
        /\ mem' = OuterAllocates(FALSE).mem
        /\ gHeap' = OuterAllocates(FALSE).heap
        /\ UNCHANGED << allocBusy, gMemMutex, live, stale, last >>

\* the program runs, and every pointer the caller holds is the payload of a
\* block of the list
Serving ==
  /\ interrupted.pc # "fault"
  /\ \A p \in DOMAIN live : PAYLOAD_BLOCK_TO_MEMORY_BLOCK(p) \in BlockSet

\* an arena that holds a block of minimum size and a free block behind it
OverlapArenaSize == ReentryArenaSize + 2 * 8

InitOverlap ==
  /\ mem = [i \in 1..OverlapArenaSize |-> 0]
  /\ ext = FALSE
  /\ callocValue = SHEAPERD_SHEAP_OVERWRITE_VALUE
  /\ gStartBlock = NULL
  /\ gHeap = ZeroHeap
  /\ gHeaderIds = [i \in 0..(SHEAP_HEADER_ID_LOG_SIZE - 1) |-> 0]
  /\ gCurrentIDIndex = 0
  /\ allocBusy = FALSE
  /\ freeBusy = FALSE
  /\ live = << >>
  /\ stale = << >>
  /\ last = NoCall
  /\ rtos = FALSE
  /\ gMemMutex = NoMutex
  /\ running = 1
  /\ recorded = << >>
  /\ interrupted = NoInterrupt
  /\ InitGuard

NextOverlap ==
  \/ interrupted.op = "none" /\ sheap_init(BufferBase, OverlapArenaSize)
  \/ Serving /\ sheap_malloc(3, 0)
  \/ Serving /\ sheap_calloc(1, 3, 0)
  \/ Serving /\ \E p \in ReentryPointers : sheap_free(p, 0)
  \/ Serving /\ outer_enter("malloc", << 3, 0 >>)
  \/ Serving /\ outer_enter("calloc", << 1, 3, 0 >>)
  \/ Serving /\ \E p \in ReentryPointers : outer_enter("free", << p, 0 >>)
  \/ outer_store
  \/ outer_resume
  \/ outer_walk
  \/ outer_finish

SpecOverlap == InitOverlap /\ [][NextOverlap]_vars

(***************************************************************************)
(* C40: in the build without an RTOS at most one of sheap_malloc,          *)
(* sheap_calloc and sheap_free is inside the part that reads or changes    *)
(* the heap: a sheap_free called from an interrupt while an allocation is  *)
(* in progress, or an allocation called while a sheap_free is in progress, *)
(* does not read or change the block list, so that the blocks are walkable *)
(* and the CRCs agree once both calls have returned.                       *)
(***************************************************************************)
\* the handler calls the other kind of function than the interrupted one
CrossCall ==
  \/ interrupted.op \in {"malloc", "calloc"} /\ InnerCall({"free"})
  \/ interrupted.op = "free" /\ InnerCall({"malloc", "calloc"})

\* the list is walkable and the CRCs agree when no call is in progress
ConsistentBetweenCalls == interrupted.op = "none" => C1_HeapWalkable /\ C2_CrcClosure

\* every payload the caller holds lies in an allocated block of the list
HeldAreAllocated ==
  interrupted.op = "none" =>
    \A p \in DOMAIN live :
      /\ PAYLOAD_BLOCK_TO_MEMORY_BLOCK(p) \in BlockSet
      /\ isAllocated(mem, PAYLOAD_BLOCK_TO_MEMORY_BLOCK(p))

C40_OneCallInsideHeap ==
  /\ [][CrossCall => HeapUntouched]_vars
  /\ [](interrupted.op = "none" => C1_HeapWalkable /\ C2_CrcClosure)

\* an allocation has found its block, and the handler's sheap_free has merged
\* that block into the one it released
C40_Witness ==
  /\ interrupted.op \in {"malloc", "calloc"}
  /\ interrupted.pc = "walked"
  /\ last.op = "free" /\ last.reports = << >> /\ last.mergedNext
  /\ interrupted.args[3] \notin BlockSet

====
